---- MODULE Spec2Model ----
(***************************************************************************)
(* State-machine model of the source-adapter and crawling engine of        *)
(* soyo_sakiko (backend/app/adapters, backend/app/services): the retry     *)
(* executor, the Lofter result merger, the dynamic-crawl scroll loop, the  *)
(* dynamic-crawl cache of LofterAdapter.search, the Bilibili article       *)
(* client, the Pixiv session and credential gates, the error containment   *)
(* of the adapters' search, the AO3 fetches, the Bilibili tag enrichment,  *)
(* the exclusion filters, the merge of the Pixiv searches, the Lofter      *)
(* parsers, the tags searched by each adapter, the page window of the AO3  *)
(* search and the login workers of the credential manager.                 *)
(*                                                                         *)
(* Each component has its own specification (SpecRetry, SpecFields,        *)
(* SpecList, SpecCrawl, SpecCache, SpecManyKeys, SpecClient and            *)
(* SpecClientLive, SpecPixiv, SpecGate, SpecSearch, SpecFetch, SpecEnrich, *)
(* SpecFilter, SpecMerge, SpecParse, SpecInclude, SpecPages, SpecManager); *)
(* the variables of the other components stay at their initial value       *)
(* under it.                                                               *)
(***************************************************************************)
EXTENDS Integers, Sequences, FiniteSets, TLC

VARIABLES
    \* ---- with_retries (utils.py) ----
    retries,        \* parameter retries
    base_delay,     \* parameter base_delay, in tenths of a second
    max_delay,      \* parameter max_delay, in tenths of a second
    has_on_retry,   \* whether an on_retry callback was passed
    attempt,        \* loop variable of "for attempt in range(retries + 1)"
    last_error,     \* local last_error (None or the caught exception)
    calls,          \* outcomes of the invocations of func so far, in order
    slept,          \* arguments of the time.sleep calls so far, in order
    hooked,         \* arguments of the on_retry calls so far, in order
    r_pc,           \* "loop", "tail", "returned", "raised"
    r_out,          \* the value returned or the exception raised
    \* ---- merge_novel_fields (lofter_common.py) ----
    existing,       \* the Novel being enriched
    incoming,       \* the Novel it is enriched from
    updated,        \* return value of the last merge_novel_fields call
    applied,        \* how many times merge_novel_fields(existing, incoming) ran
    first_in,       \* existing as it was before the first application
    first_out,      \* existing as it was after the first application
    \* ---- merge_novel_list (lofter_common.py) ----
    novels,         \* the accumulator list (argument novels)
    index_map,      \* the index map the caller keeps between calls
    last_incoming,  \* argument incoming of the last call
    ncalls,         \* number of merge_novel_list calls made
    \* ---- search_dynamic_sync (lofter_dynamic.py, lofter.py) ----
    impl,           \* "module": lofter_dynamic.py, "adapter": LofterAdapter
    call,           \* arguments page_size, offset, target_total, return_all
    cfg_scrolls,    \* settings.LOFTER_DYNAMIC_MAX_SCROLLS
    target_total,   \* local target_total
    max_scrolls,    \* local max_scrolls
    dwr_payloads,   \* buffer of intercepted RPC payloads
    ordered,        \* the accumulator
    crawl_index,    \* index_map (module) / the keys of seen (adapter)
    processed_dwr,  \* local processed_dwr
    last_count,     \* local last_count
    last_dwr,       \* local last_dwr
    stable_rounds,  \* local stable_rounds
    scrolls,        \* local scrolls
    c_pc,           \* "head", "scroll", "closing", "done"
    result,         \* the returned list
    aborted,        \* whether the except clause returned []
    rounds,         \* completed scans of the loop body
    quiet,          \* trailing scans that changed neither size nor processed
    drained,        \* payloads the last scan took from the buffer
    stuck,          \* whether every scan so far saw the 20-entry snapshot
    taken,          \* buffer indices of the payloads merged so far, in order
    \* ---- LofterAdapter.search and its cache (lofter.py) ----
    dynamic_cache,  \* LofterAdapter._dynamic_cache: key -> entry
    cfg_ttl,        \* settings.LOFTER_DYNAMIC_CACHE_TTL
    cfg_cookie,     \* settings.LOFTER_COOKIE ("" when not configured)
    now,            \* time.time(), in seconds
    ticks,          \* how many times the clock has advanced
    task,           \* the search coroutines: position and locals of each
    \* ---- BilibiliClient.fetch_article (bilibili_client.py) ----
    buvid3,         \* BilibiliClient._buvid3 (0: None, n: the n-th uuid drawn)
    uuids,          \* how many uuid4 values generate_buvid3 has drawn
    max_retries,    \* parameter max_retries
    fa_attempt,     \* loop variable of "for attempt in range(max_retries + 1)"
    last_message,   \* local last_message
    sent,           \* the requests of this call: token carried by each
    responses,      \* what the upstream answered to each, in order
    fa_token0,      \* _buvid3 when the call was made
    fa_pc,          \* "idle", "loop", "tail", "returned"
    fa_out,         \* the returned pair (payload, message)
    fa_calls,       \* fetch_article calls made on this client
    \* ---- PixivAdapter and the credential manager (pixiv.py) ----
    px_installed,   \* whether "from pixivpy3 import AppPixivAPI" succeeds
    px_cfg,         \* settings.PIXIV_REFRESH_TOKEN ("" when not configured)
    px_api,         \* PixivAdapter._api: None, or the token it authenticated
    px_token,       \* PixivAdapter._token
    cred_pc,        \* credential manager: "idle", or "written" before reset()
    logins,         \* credential writes made so far
    px_authed,      \* token of the last successful auth while configured
    px_rejected,    \* token of the last rejected auth while configured
    px_reset_since, \* whether reset() ran since the last successful auth
    op,             \* the adapter operation in progress or last finished
    px_ops,         \* adapter operations started so far
    \* ---- search of the four adapters under upstream failure ----
    sr_adapter,     \* "ao3", "pixiv", "lofter", "bilibili"
    sr_hits,        \* how many items the search meets
    sr_stage,       \* index of the next stage of the search
    sr_items,       \* items collected so far
    sr_raised,      \* the stages that raised, in order
    sr_out,         \* "running", "list" (a list was returned), "raised"
    \* ---- AO3Adapter (ao3.py) ----
    AO3_AVAILABLE,  \* module flag: whether "import AO3" succeeded
    \* ---- BilibiliAdapter.search: enhanced filtering (bilibili.py) ----
    en_hits,        \* len(novels) when the enrichment starts
    en_pc,          \* check_and_filter(novel, index): position of each task
    en_detail,      \* what get_detail gave each task ("pending" before)
    en_form,        \* each hit: "original", "enriched", "dropped"
    semaphore,      \* value of asyncio.Semaphore(3)
    en_result,      \* novels after the gather: (index, form) of each, in order
    en_phase,       \* "running", "gathered"
    \* ---- exclude, exclude_any_tag (utils.py) ----
    fl_text,        \* argument text of the exclude call
    fl_tags,        \* argument tags of the exclude_any_tag call
    fl_patterns,    \* argument patterns / exclude_patterns
    fl_call,        \* "none", "exclude", "exclude_any_tag": the call made
    fl_result,      \* what the call returned
    \* ---- PixivAdapter.search._search (pixiv.py) ----
    ps_catalog,     \* upstream: novel_data of each id
    ps_tags,        \* len(search_tags)
    ps_sort_by,     \* argument sort_by
    ps_page_size,   \* argument page_size
    ps_exclude,     \* argument exclude_tags
    ps_tag,         \* how many tags the for loop has gone through
    ps_calls,       \* what each tag's with_retries gave: ids, or that it raised
    all_novels,     \* local all_novels (the ids of the parsed novels)
    ps_seen,        \* local seen_ids
    ps_out,         \* the list _search returned
    ps_pc,          \* "loop", "returned"
    \* ---- the Lofter parsers (lofter_parse.py, lofter.py) ----
    pr_impl,        \* "module": lofter_parse.py, "adapter": LofterAdapter
    pr_post,        \* the post met: title, digest or summary text, tags
    pr_exclude,     \* argument exclude_tags
    pr_parser,      \* "none", "dwr", "tag_page": the parser that ran
    pr_item,        \* the Novel appended to novels, or NoItem
    \* ---- search: the tags asked for and the tags searched (lofter.py,
    \* ---- ao3.py, pixiv.py)
    in_adapter,     \* "lofter", "ao3", "pixiv"
    in_tags,        \* argument tags
    in_queries,     \* the tags the upstream is searched for
    in_item,        \* an item search returns
    in_pc,          \* "called", "queried", "returned"
    \* ---- AO3Adapter._search_sync: the window of one page (ao3.py)
    ao_results,     \* search.results after update(): the titles, in order
    ao_exclude,     \* argument exclude_tags
    ao_page_size,   \* argument page_size
    ao_pages,       \* page -> the works returned for it (positions in
                    \* ao_results), NotCalled before the call
    ao_failed,      \* pages whose search.update() failed
    \* ---- CredentialManager: the login workers (credential_service.py)
    cm_state,       \* source -> CredentialState.state
    cm_running,     \* source -> CredentialState.running
    cm_threads,     \* source -> worker threads started and not finished
    cm_ops          \* calls of start_* and clear made so far

retryVars == <<retries, base_delay, max_delay, has_on_retry, attempt,
               last_error, calls, slept, hooked, r_pc, r_out>>
fieldVars == <<existing, incoming, updated, applied, first_in, first_out>>
listVars == <<novels, index_map, last_incoming, ncalls>>
crawlVars == <<impl, call, cfg_scrolls, target_total, max_scrolls,
               dwr_payloads, ordered, crawl_index, processed_dwr, last_count,
               last_dwr, stable_rounds, scrolls, c_pc, result, aborted,
               rounds, quiet, drained, stuck, taken>>
cacheVars == <<dynamic_cache, cfg_ttl, cfg_cookie, now, ticks, task>>
clientVars == <<buvid3, uuids, max_retries, fa_attempt, last_message, sent,
                responses, fa_token0, fa_pc, fa_out, fa_calls>>
pixivVars == <<px_installed, px_cfg, px_api, px_token, cred_pc, logins,
               px_authed, px_rejected, px_reset_since, op, px_ops>>
searchVars == <<sr_adapter, sr_hits, sr_stage, sr_items, sr_raised, sr_out>>
ao3Vars == <<AO3_AVAILABLE>>
enrichVars == <<en_hits, en_pc, en_detail, en_form, semaphore, en_result,
                en_phase>>
filterVars == <<fl_text, fl_tags, fl_patterns, fl_call, fl_result>>
mergeVars == <<ps_catalog, ps_tags, ps_sort_by, ps_page_size, ps_exclude,
               ps_tag, ps_calls, all_novels, ps_seen, ps_out, ps_pc>>
parseVars == <<pr_impl, pr_post, pr_exclude, pr_parser, pr_item>>
includeVars == <<in_adapter, in_tags, in_queries, in_item, in_pc>>
pagesVars == <<ao_results, ao_exclude, ao_page_size, ao_pages, ao_failed>>
managerVars == <<cm_state, cm_running, cm_threads, cm_ops>>
vars == <<retryVars, fieldVars, listVars, crawlVars, cacheVars, clientVars,
          pixivVars, searchVars, ao3Vars, enrichVars, filterVars, mergeVars,
          parseVars, includeVars, pagesVars, managerVars>>

\* What an action of one component leaves alone: the other components.
notRetry == <<fieldVars, listVars, crawlVars, cacheVars, clientVars,
              pixivVars, searchVars, ao3Vars, enrichVars, filterVars,
              mergeVars, parseVars, includeVars, pagesVars, managerVars>>
notFields == <<retryVars, listVars, crawlVars, cacheVars, clientVars,
               pixivVars, searchVars, ao3Vars, enrichVars, filterVars,
               mergeVars, parseVars, includeVars, pagesVars, managerVars>>
notList == <<retryVars, fieldVars, crawlVars, cacheVars, clientVars,
             pixivVars, searchVars, ao3Vars, enrichVars, filterVars,
             mergeVars, parseVars, includeVars, pagesVars, managerVars>>
notCrawl == <<retryVars, fieldVars, listVars, cacheVars, clientVars,
              pixivVars, searchVars, ao3Vars, enrichVars, filterVars,
              mergeVars, parseVars, includeVars, pagesVars, managerVars>>
notCache == <<retryVars, fieldVars, listVars, crawlVars, clientVars,
              pixivVars, searchVars, ao3Vars, enrichVars, filterVars,
              mergeVars, parseVars, includeVars, pagesVars, managerVars>>
notClient == <<retryVars, fieldVars, listVars, crawlVars, cacheVars,
               pixivVars, searchVars, ao3Vars, enrichVars, filterVars,
               mergeVars, parseVars, includeVars, pagesVars, managerVars>>
notPixiv == <<retryVars, fieldVars, listVars, crawlVars, cacheVars,
              clientVars, searchVars, ao3Vars, enrichVars, filterVars,
              mergeVars, parseVars, includeVars, pagesVars, managerVars>>
notSearch == <<retryVars, fieldVars, listVars, crawlVars, cacheVars,
               clientVars, pixivVars, ao3Vars, enrichVars, filterVars,
               mergeVars, parseVars, includeVars, pagesVars, managerVars>>
notAo3 == <<retryVars, fieldVars, listVars, crawlVars, cacheVars, clientVars,
            pixivVars, searchVars, enrichVars, filterVars, mergeVars,
            parseVars, includeVars, pagesVars, managerVars>>
notEnrich == <<retryVars, fieldVars, listVars, crawlVars, cacheVars,
               clientVars, pixivVars, searchVars, ao3Vars, filterVars,
               mergeVars, parseVars, includeVars, pagesVars, managerVars>>
notFilter == <<retryVars, fieldVars, listVars, crawlVars, cacheVars,
               clientVars, pixivVars, searchVars, ao3Vars, enrichVars,
               mergeVars, parseVars, includeVars, pagesVars, managerVars>>
notMerge == <<retryVars, fieldVars, listVars, crawlVars, cacheVars,
              clientVars, pixivVars, searchVars, ao3Vars, enrichVars,
              filterVars, parseVars, includeVars, pagesVars, managerVars>>
notParse == <<retryVars, fieldVars, listVars, crawlVars, cacheVars,
              clientVars, pixivVars, searchVars, ao3Vars, enrichVars,
              filterVars, mergeVars, includeVars, pagesVars, managerVars>>
notInclude == <<retryVars, fieldVars, listVars, crawlVars, cacheVars,
                clientVars, pixivVars, searchVars, ao3Vars, enrichVars,
                filterVars, mergeVars, parseVars, pagesVars, managerVars>>
notPages == <<retryVars, fieldVars, listVars, crawlVars, cacheVars,
              clientVars, pixivVars, searchVars, ao3Vars, enrichVars,
              filterVars, mergeVars, parseVars, includeVars, managerVars>>
notManager == <<retryVars, fieldVars, listVars, crawlVars, cacheVars,
                clientVars, pixivVars, searchVars, ao3Vars, enrichVars,
                filterVars, mergeVars, parseVars, includeVars, pagesVars>>
notRetryPixiv == <<fieldVars, listVars, crawlVars, cacheVars, clientVars,
                   searchVars, ao3Vars, enrichVars, filterVars, mergeVars,
                   parseVars, includeVars, pagesVars, managerVars>>

\* Python's None, for a string-valued Optional, for an exception slot and
\* for a Novel slot.
None == "None"
NoError == [kind |-> "none", call |-> 0]
NoNovel == [source |-> "none", id |-> 0, title |-> "", summary |-> "",
            author |-> "", cover_image |-> None, tags |-> <<>>]

Min(a, b) == IF a <= b THEN a ELSE b
Max(a, b) == IF a >= b THEN a ELSE b

RECURSIVE Pow2(_)
Pow2(n) == IF n <= 0 THEN 1 ELSE 2 * Pow2(n - 1)

(***************************************************************************)
(* Bounds                                                                  *)
(***************************************************************************)
MaxRetries == 3
MaxId == 3          \* item ids 1 .. MaxId
MaxIncoming == 2    \* longest incoming list of one merge_novel_list call
MaxCalls == 3       \* merge_novel_list calls on one accumulator
MaxPayloads == 2    \* RPC payloads intercepted during one crawl
MaxTasks == 2       \* search coroutines in flight at once
MaxTicks == 2       \* advances of the clock
MaxManyKeys == 21   \* distinct cache keys in the one-key-after-another runs

MaxFetchRetries == 2  \* largest max_retries passed to fetch_article
MaxFetchCalls == 2    \* fetch_article calls on one client

MaxOps == 3           \* Pixiv adapter operations in one run
MaxLogins == 2        \* credential writes (login or clear) in one run
MaxTags == 2          \* tags of one Pixiv search
MaxHits == 2          \* items one search meets

MaxEnrich == 5        \* search hits that go through the enrichment

MaxText == 2          \* characters of a text, a tag or a pattern
MaxPatterns == 2      \* patterns of one exclude list
MaxTagList == 2       \* tags of one item

MaxWorks == 2         \* works the Pixiv upstream holds
MaxDate == 2          \* creation dates and bookmark counts 1 .. MaxDate

MaxResults == 4       \* works in the upstream result list of AO3
MaxPageSize == 2      \* largest page_size of an AO3 search
MaxPage == 3          \* largest page of an AO3 search

MaxManagerOps == 5    \* calls of start_lofter, start_pixiv and clear

(***************************************************************************)
(* Retry executor: with_retries                                            *)
(***************************************************************************)
\* What one invocation of func can do: return a value, raise an exception
\* that matches "exceptions", or raise one that does not.
Outcomes == {"ok", "retryable", "other"}

\* The exception (or value) produced by the k-th invocation is identified by k.
Produced(kind, k) == [kind |-> kind, call |-> k]

RetryIdle ==
    /\ retries = 0 /\ base_delay = 0 /\ max_delay = 0 /\ has_on_retry = FALSE
    /\ attempt = 0 /\ last_error = NoError /\ calls = <<>> /\ slept = <<>>
    /\ hooked = <<>> /\ r_pc = "idle" /\ r_out = NoError

RetryStart ==
    /\ retries \in -1 .. MaxRetries
    /\ base_delay \in {6, 3}
    /\ max_delay \in {20, 10}
    /\ has_on_retry \in BOOLEAN
    /\ attempt = 0
    /\ last_error = NoError
    /\ calls = <<>>
    /\ slept = <<>>
    /\ hooked = <<>>
    /\ r_pc = IF retries + 1 > 0 THEN "loop" ELSE "tail"
    /\ r_out = NoError

\* delay = min(base_delay * (2**attempt), max_delay)
DelayUncapped(base, k, cap) == base * Pow2(k)
Delay(base, k, cap) == Min(base * Pow2(k), cap)

\* Whether the loop is left after a caught exception in iteration k:
\* "if attempt >= retries: break".
LastAttemptEarly(k, n) == k + 1 >= n
LastAttempt(k, n) == k >= n

\* One iteration of the for loop in which func returns.
AttemptReturns ==
    /\ r_pc = "loop"
    /\ calls' = Append(calls, "ok")
    /\ r_out' = Produced("ok", Len(calls) + 1)
    /\ r_pc' = "returned"
    /\ UNCHANGED <<retries, base_delay, max_delay, has_on_retry, attempt,
                   last_error, slept, hooked>>
    /\ UNCHANGED notRetry

\* One iteration in which func raises an exception outside "exceptions":
\* the except clause does not match and the exception propagates.
AttemptPropagates ==
    /\ r_pc = "loop"
    /\ calls' = Append(calls, "other")
    /\ r_out' = Produced("other", Len(calls) + 1)
    /\ r_pc' = "raised"
    /\ UNCHANGED <<retries, base_delay, max_delay, has_on_retry, attempt,
                   last_error, slept, hooked>>
    /\ UNCHANGED notRetry

\* One iteration in which func raises a matching exception.
AttemptFails ==
    /\ r_pc = "loop"
    /\ calls' = Append(calls, "retryable")
    /\ last_error' = Produced("retryable", Len(calls) + 1)
    /\ IF LastAttempt(attempt, retries)
         THEN /\ r_pc' = "tail"
              /\ UNCHANGED <<attempt, slept, hooked>>
         ELSE /\ hooked' = IF has_on_retry
                             THEN Append(hooked, <<last_error', attempt + 1>>)
                             ELSE hooked
              /\ slept' = Append(slept, Delay(base_delay, attempt, max_delay))
              /\ attempt' = attempt + 1
              /\ r_pc' = IF attempt + 1 < retries + 1 THEN "loop" ELSE "tail"
    /\ UNCHANGED <<retries, base_delay, max_delay, has_on_retry, r_out>>
    /\ UNCHANGED notRetry

\* After the loop: "if last_error: raise last_error".
TailRaises ==
    /\ r_pc = "tail"
    /\ last_error # NoError
    /\ r_out' = last_error
    /\ r_pc' = "raised"
    /\ UNCHANGED <<retries, base_delay, max_delay, has_on_retry, attempt,
                   last_error, calls, slept, hooked>>
    /\ UNCHANGED notRetry

\* After the loop without a caught exception: "return func()", unprotected.
TailCalls(kind) ==
    /\ r_pc = "tail"
    /\ last_error = NoError
    /\ calls' = Append(calls, kind)
    /\ r_out' = Produced(kind, Len(calls) + 1)
    /\ r_pc' = IF kind = "ok" THEN "returned" ELSE "raised"
    /\ UNCHANGED <<retries, base_delay, max_delay, has_on_retry, attempt,
                   last_error, slept, hooked>>
    /\ UNCHANGED notRetry

with_retries ==
    \/ AttemptReturns
    \/ AttemptPropagates
    \/ AttemptFails
    \/ TailRaises
    \/ \E kind \in Outcomes : TailCalls(kind)

(***************************************************************************)
(* Result merger: merge_novel_fields                                       *)
(***************************************************************************)
\* Placeholder sentinels of lofter_common.py.  The title and summary
\* sentinels are CJK literals in the source (lines 123 and 127).
TITLE_PLACEHOLDER == "untitled"
SUMMARY_PLACEHOLDER == "no-summary"
AUTHOR_PLACEHOLDER == "Unknown"

Titles == {"", TITLE_PLACEHOLDER, "t1", "t2"}
Summaries == {"", SUMMARY_PLACEHOLDER, "s1", "s2"}
Authors == {"", AUTHOR_PLACEHOLDER, "a1", "a2"}
Covers == {None, "", "c1", "c2"}
TagLists == {<<>>, <<"x">>, <<"y">>}

Novel(src, id, title, summary, author, cover, tags) ==
    [source |-> src, id |-> id, title |-> title, summary |-> summary,
     author |-> author, cover_image |-> cover, tags |-> tags]

\* Python truthiness of an Optional[str] and of a list.
Truthy(s) == s # None /\ s # ""
NonEmpty(l) == Len(l) > 0

\* The five conditions under which merge_novel_fields assigns a field.
CoverFires(e, i) == ~Truthy(e.cover_image) /\ Truthy(i.cover_image)

TitleFiresAlways(e, i) == Truthy(i.title) /\ i.title # TITLE_PLACEHOLDER
TitleFires(e, i) ==
    /\ (~Truthy(e.title) \/ e.title = TITLE_PLACEHOLDER) /\ Truthy(i.title)
    /\ i.title # TITLE_PLACEHOLDER

SummaryFiresOnSentinel(e, i) ==
    (~Truthy(e.summary) \/ e.summary = SUMMARY_PLACEHOLDER) /\ Truthy(i.summary)
SummaryFires(e, i) ==
    /\ (~Truthy(e.summary) \/ e.summary = SUMMARY_PLACEHOLDER)
    /\ Truthy(i.summary)
    /\ i.summary # SUMMARY_PLACEHOLDER

AuthorFires(e, i) ==
    /\ (~Truthy(e.author) \/ e.author = AUTHOR_PLACEHOLDER) /\ Truthy(i.author)
    /\ i.author # AUTHOR_PLACEHOLDER

TagsFire(e, i) == ~NonEmpty(e.tags) /\ NonEmpty(i.tags)

\* merge_novel_fields(existing, incoming): the enriched existing item and
\* the returned flag.
merge_novel_fields(e, i) ==
    [novel |->
        [e EXCEPT
           !.cover_image = IF CoverFires(e, i) THEN i.cover_image ELSE @,
           !.title = IF TitleFires(e, i) THEN i.title ELSE @,
           !.summary = IF SummaryFires(e, i) THEN i.summary ELSE @,
           !.author = IF AuthorFires(e, i) THEN i.author ELSE @,
           !.tags = IF TagsFire(e, i) THEN i.tags ELSE @],
     updated |->
        \/ CoverFires(e, i) \/ TitleFires(e, i) \/ SummaryFires(e, i)
        \/ AuthorFires(e, i) \/ TagsFire(e, i)]

FieldNovels ==
    {Novel("lofter", 1, t, s, a, c, g) :
        t \in Titles, s \in Summaries, a \in Authors, c \in Covers,
        g \in TagLists}

FieldsIdle ==
    /\ existing = NoNovel /\ incoming = NoNovel /\ updated = FALSE
    /\ applied = 0 /\ first_in = NoNovel /\ first_out = NoNovel

FieldsStart ==
    /\ existing \in FieldNovels
    /\ incoming \in FieldNovels
    /\ updated = FALSE
    /\ applied = 0
    /\ first_in = existing
    /\ first_out = NoNovel

\* A call merge_novel_fields(existing, incoming); the same incoming item is
\* merged at most twice.
MergeFieldsCall ==
    /\ applied < 2
    /\ LET r == merge_novel_fields(existing, incoming)
       IN  /\ existing' = r.novel
           /\ updated' = r.updated
           /\ first_out' = IF applied = 0 THEN r.novel ELSE first_out
    /\ applied' = applied + 1
    /\ UNCHANGED <<incoming, first_in>>
    /\ UNCHANGED notFields

(***************************************************************************)
(* Result merger: merge_novel_list                                         *)
(***************************************************************************)
\* novel_key(source, novel_id): the f-string "source:id".  source is a
\* NovelSource value, which holds no colon, so the string determines the
\* pair and the pair stands for it.
novel_key(source, novel_id) == <<source, novel_id>>

KeyOf(n) == novel_key(n.source, n.id)

\* The empty dict, and dict assignment d[k] = v.
EmptyDict == [k \in {} |-> 0]
DictSet(d, k, v) == [x \in (DOMAIN d) \cup {k} |-> IF x = k THEN v ELSE d[x]]

\* {novel_key(n.source, n.id): idx for idx, n in enumerate(novels)}: a later
\* index replaces an earlier one for the same key.
BuildIndex(ns) ==
    [k \in {KeyOf(ns[i]) : i \in 1 .. Len(ns)} |->
        (CHOOSE i \in 1 .. Len(ns) :
            /\ KeyOf(ns[i]) = k
            /\ \A j \in 1 .. Len(ns) : KeyOf(ns[j]) = k => j <= i) - 1]

\* "index_map[key] = len(novels)" (indices are 0-based).
IndexForgotten(map, key, ns) == map
IndexAppended(map, key, ns) == DictSet(map, key, Len(ns))

\* "novels.append(novel)".
ListPrepend(ns, n) == <<n>> \o ns
ListAppend(ns, n) == Append(ns, n)

\* The for loop of merge_novel_list over the rest of incoming.
RECURSIVE merge_loop(_, _, _)
merge_loop(ns, inc, map) ==
    IF inc = <<>>
      THEN [novels |-> ns, index_map |-> map]
      ELSE LET novel == Head(inc)
               key == KeyOf(novel)
           IN  IF key \notin DOMAIN map
                 THEN merge_loop(ListAppend(ns, novel), Tail(inc),
                                 IndexAppended(map, key, ns))
                 ELSE merge_loop(
                        [ns EXCEPT ![map[key] + 1] =
                            merge_novel_fields(@, novel).novel],
                        Tail(inc), map)

\* merge_novel_list(novels, incoming, index_map); given_map is FALSE when
\* the caller passes index_map=None.
merge_novel_list(ns, inc, map, given_map) ==
    merge_loop(ns, inc, IF given_map THEN map ELSE BuildIndex(ns))

ListNovels ==
    {Novel("lofter", id, t, SUMMARY_PLACEHOLDER, AUTHOR_PLACEHOLDER, None, <<>>) :
        id \in 1 .. MaxId, t \in {TITLE_PLACEHOLDER, "t1"}}

\* The sequences over S of length at most n.
SeqsUpTo(S, n) == UNION {[1 .. k -> S] : k \in 0 .. n}

ListIdle ==
    /\ novels = <<>> /\ index_map = EmptyDict /\ last_incoming = <<>>
    /\ ncalls = 0

\* A caller starts with an empty accumulator and an empty index map
\* (lofter_dynamic.py:102-103).
ListStart == ListIdle

\* A call that passes the index map returned by the previous call.
MergeListThreaded(inc) ==
    /\ ncalls < MaxCalls
    /\ LET r == merge_novel_list(novels, inc, index_map, TRUE)
       IN  novels' = r.novels /\ index_map' = r.index_map
    /\ last_incoming' = inc
    /\ ncalls' = ncalls + 1
    /\ UNCHANGED notList

\* A call that passes index_map=None, so that the index is rebuilt.
MergeListRebuilt(inc) ==
    /\ ncalls < MaxCalls
    /\ LET r == merge_novel_list(novels, inc, index_map, FALSE)
       IN  novels' = r.novels /\ index_map' = r.index_map
    /\ last_incoming' = inc
    /\ ncalls' = ncalls + 1
    /\ UNCHANGED notList

(***************************************************************************)
(* Dynamic crawl: search_dynamic_sync (lofter_dynamic.py) and              *)
(* LofterAdapter._search_dynamic_sync (lofter.py)                          *)
(***************************************************************************)
\* The loop stops once stable_rounds reaches this value.
STABLE_LIMIT_MODULE == 6
STABLE_LIMIT_ADAPTER == 4
StableLimit(i) == IF i = "module" THEN STABLE_LIMIT_MODULE ELSE STABLE_LIMIT_ADAPTER

\* "settings.LOFTER_DYNAMIC_MAX_SCROLLS or 15" / "... or 8".
BaseScrolls(i, cfg) == IF cfg # 0 THEN cfg ELSE IF i = "module" THEN 15 ELSE 8

\* max(base_scrolls, target_total // 5 + 10) / max(base_scrolls, target_total // 8 + 6)
MaxScrolls(i, cfg, target) ==
    IF i = "module"
      THEN Max(BaseScrolls(i, cfg), (target \div 5) + 10)
      ELSE Max(BaseScrolls(i, cfg), (target \div 8) + 6)

\* "if target_total is None: target_total = offset + page_size"; the absent
\* argument is -1 here.
TargetTotal(c) ==
    IF c.target_total = -1 THEN c.offset + c.page_size ELSE c.target_total

\* The item a list-page entry parses to: sentinel title and summary.
DomNovel(id) ==
    Novel("lofter", id, TITLE_PLACEHOLDER, SUMMARY_PLACEHOLDER, "a1", None, <<>>)

\* The item an RPC payload entry parses to.
DwrNovel(id) ==
    Novel("lofter", id, "t1", "s1", AUTHOR_PLACEHOLDER, None, <<"x">>)

\* The ids of the entries of the DOM snapshots a scan can see, as a
\* duplicate-free list each (parse_tag_page_html skips repeated ids).
StuckSnapshot == [k \in 1 .. 20 |-> k]
DomSnapshots == {<<>>, <<2, 1>>, <<1, 2, 3>>, StuckSnapshot}

\* parse_tag_page_html(html, exclude_tags, ranking_type, limit): "if limit:
\* return novels[:limit]".
parse_tag_page_html(snapshot, limit) ==
    LET n == IF limit # 0 THEN Min(Len(snapshot), Max(limit, 0)) ELSE Len(snapshot)
    IN  [k \in 1 .. n |-> DomNovel(snapshot[k])]

\* The payloads the page can answer with, as the ids of the posts in them:
\* one without posts, and one with a post the list page shows too, a post
\* it never shows, and a repeated post.
Payloads == {<<>>, <<1, 21, 1>>}

\* parse_dwr_response(payload, exclude_tags): one item per post, a repeated
\* id skipped ("novel_id in seen_ids").
RECURSIVE DwrItems(_, _)
DwrItems(ids, seen_ids) ==
    IF ids = <<>> THEN <<>>
    ELSE IF Head(ids) \in seen_ids THEN DwrItems(Tail(ids), seen_ids)
    ELSE <<DwrNovel(Head(ids))>> \o DwrItems(Tail(ids), seen_ids \cup {Head(ids)})

parse_dwr_response(payload) == DwrItems(payload, {})

\* The adapter's merge: "if key in seen: continue; seen.add(key);
\* ordered.append(novel)".  seen is kept as a dict whose keys are the set.
RECURSIVE seen_loop(_, _, _)
seen_loop(ns, inc, seen) ==
    IF inc = <<>>
      THEN [novels |-> ns, index_map |-> seen]
      ELSE LET key == KeyOf(Head(inc))
           IN  IF key \in DOMAIN seen
                 THEN seen_loop(ns, Tail(inc), seen)
                 ELSE seen_loop(Append(ns, Head(inc)), Tail(inc),
                                DictSet(seen, key, 0))

\* Merging one parsed list into the accumulator, by implementation.
Accumulate(i, ns, inc, map) ==
    IF i = "module" THEN merge_novel_list(ns, inc, map, TRUE)
    ELSE seen_loop(ns, inc, map)

\* "while processed_dwr < len(dwr_payloads)": payloads are taken in buffer
\* order from index processed on ("payload = dwr_payloads[processed_dwr];
\* processed_dwr += 1"); taken lists the buffer indices (from 1) of the
\* payloads merged, in the order they were.
RECURSIVE Drain(_, _, _, _, _)
Drain(i, ns, map, buffer, processed) ==
    IF processed < Len(buffer)
      THEN LET r == Accumulate(i, ns, parse_dwr_response(buffer[processed + 1]), map)
               d == Drain(i, r.novels, r.index_map, buffer, processed + 1)
           IN  [d EXCEPT !.taken = <<processed + 1>> \o d.taken]
      ELSE [novels |-> ns, index_map |-> map, processed |-> processed,
            taken |-> <<>>]

\* The drain after the loop, behind context.close() and browser.close().
NoFinalDrain(i, ns, map, buffer, processed) ==
    [novels |-> ns, index_map |-> map, processed |-> processed, taken |-> <<>>]
FinalDrain(i, ns, map, buffer, processed) ==
    Drain(i, ns, map, buffer, processed)

\* The if-else that updates stable_rounds.
StableQuietDom(stable, count, lastc, processed, lastd) ==
    IF count = lastc THEN stable + 1 ELSE 0
StableNext(stable, count, lastc, processed, lastd) ==
    IF count = lastc
      THEN IF processed = lastd THEN stable + 1 ELSE 0
      ELSE 0

\* The loop condition.
ContinueNoCeiling(sc, maxsc, count, target, stable, limit) ==
    count < target /\ stable < limit
Continue(sc, maxsc, count, target, stable, limit) ==
    sc < maxsc /\ count < target /\ stable < limit

\* ordered[offset : offset + page_size]
Slice(ns, offset, size) ==
    [k \in 1 .. Max(0, Min(Len(ns), offset + size) - offset) |-> ns[offset + k]]

\* The tail of the function: return_all, or the requested page.
Returned(c, ns) ==
    IF c.return_all THEN ns
    ELSE IF c.offset >= Len(ns) THEN <<>>
    ELSE Slice(ns, c.offset, c.page_size)

\* The calls considered: LofterAdapter.search's (return_all=True with an
\* explicit target_total) and a plain page request.
CrawlCalls ==
    {[page_size |-> 25, offset |-> 25, target_total |-> 50, return_all |-> TRUE],
     [page_size |-> 2, offset |-> 0, target_total |-> 3, return_all |-> TRUE],
     [page_size |-> 1, offset |-> 1, target_total |-> -1, return_all |-> FALSE]}

CrawlIdle ==
    /\ impl = "none" /\ call = [page_size |-> 0, offset |-> 0,
                                target_total |-> 0, return_all |-> FALSE]
    /\ cfg_scrolls = 0 /\ target_total = 0 /\ max_scrolls = 0
    /\ dwr_payloads = <<>> /\ ordered = <<>> /\ crawl_index = EmptyDict
    /\ processed_dwr = 0 /\ last_count = 0 /\ last_dwr = 0
    /\ stable_rounds = 0 /\ scrolls = 0 /\ c_pc = "idle" /\ result = <<>>
    /\ aborted = FALSE /\ rounds = 0 /\ quiet = 0 /\ drained = 0 /\ stuck = FALSE
    /\ taken = <<>>

\* The state when the loop is first reached (lines 102-108 / 440-446).
CrawlStart ==
    /\ impl \in {"module", "adapter"}
    /\ call \in CrawlCalls
    /\ cfg_scrolls \in {0, 7}
    /\ target_total = TargetTotal(call)
    /\ max_scrolls = MaxScrolls(impl, cfg_scrolls, target_total)
    /\ dwr_payloads = <<>> /\ ordered = <<>> /\ crawl_index = EmptyDict
    /\ processed_dwr = 0 /\ last_count = 0 /\ last_dwr = 0
    /\ stable_rounds = 0 /\ scrolls = 0 /\ c_pc = "head" /\ result = <<>>
    /\ aborted = FALSE /\ rounds = 0 /\ quiet = 0 /\ drained = 0 /\ stuck = TRUE
    /\ taken = <<>>

crawlParams == <<impl, call, cfg_scrolls, target_total, max_scrolls>>

\* The response callback: runs while the crawl is inside a browser call
\* (page.content, page.evaluate, page.wait_for_timeout, context.close).
on_response(payload) ==
    /\ c_pc \in {"head", "scroll", "closing"}
    /\ Len(dwr_payloads) < MaxPayloads
    /\ dwr_payloads' = Append(dwr_payloads, payload)
    /\ UNCHANGED <<crawlParams, ordered, crawl_index, processed_dwr,
                   last_count, last_dwr, stable_rounds, scrolls, c_pc, result,
                   aborted, rounds, quiet, drained, stuck, taken>>
    /\ UNCHANGED notCrawl

\* The loop body up to the scroll: parse the DOM, merge, drain the buffer,
\* update stable_rounds, last_count and last_dwr.
Scan(snapshot) ==
    /\ c_pc = "head"
    /\ Continue(scrolls, max_scrolls, Len(ordered), target_total,
                stable_rounds, StableLimit(impl))
    /\ \E m \in {Accumulate(impl, ordered,
                           parse_tag_page_html(snapshot, target_total),
                           crawl_index)} :
       \E d \in {Drain(impl, m.novels, m.index_map, dwr_payloads,
                       processed_dwr)} :
           /\ ordered' = d.novels
           /\ crawl_index' = d.index_map
           /\ processed_dwr' = d.processed
           /\ stable_rounds' = StableNext(stable_rounds, Len(d.novels),
                                          last_count, d.processed, last_dwr)
           /\ last_count' = Len(d.novels)
           /\ last_dwr' = d.processed
           /\ quiet' = IF Len(d.novels) = Len(ordered)
                          /\ d.processed = processed_dwr
                         THEN quiet + 1 ELSE 0
           /\ drained' = d.processed - processed_dwr
           /\ taken' = taken \o d.taken
    /\ rounds' = rounds + 1
    /\ stuck' = (stuck /\ snapshot = StuckSnapshot)
    /\ c_pc' = "scroll"
    /\ UNCHANGED <<crawlParams, dwr_payloads, scrolls, result, aborted>>
    /\ UNCHANGED notCrawl

\* page.evaluate(scrollTo), page.wait_for_timeout, "scrolls += 1".
Scroll ==
    /\ c_pc = "scroll"
    /\ scrolls' = scrolls + 1
    /\ c_pc' = "head"
    /\ UNCHANGED <<crawlParams, dwr_payloads, ordered, crawl_index,
                   processed_dwr, last_count, last_dwr, stable_rounds, result,
                   aborted, rounds, quiet, drained, stuck, taken>>
    /\ UNCHANGED notCrawl

\* The loop condition fails: context.close(), browser.close().
LoopExit ==
    /\ c_pc = "head"
    /\ ~Continue(scrolls, max_scrolls, Len(ordered), target_total,
                 stable_rounds, StableLimit(impl))
    /\ c_pc' = "closing"
    /\ UNCHANGED <<crawlParams, dwr_payloads, ordered, crawl_index,
                   processed_dwr, last_count, last_dwr, stable_rounds, scrolls,
                   result, aborted, rounds, quiet, drained, stuck, taken>>
    /\ UNCHANGED notCrawl

\* The final drain and the return.
Finish ==
    /\ c_pc = "closing"
    /\ \E d \in {FinalDrain(impl, ordered, crawl_index, dwr_payloads,
                            processed_dwr)} :
           /\ ordered' = d.novels
           /\ crawl_index' = d.index_map
           /\ processed_dwr' = d.processed
           /\ taken' = taken \o d.taken
           /\ result' = Returned(call, d.novels)
    /\ c_pc' = "done"
    /\ UNCHANGED <<crawlParams, dwr_payloads, last_count, last_dwr,
                   stable_rounds, scrolls, aborted, rounds, quiet, drained, stuck>>
    /\ UNCHANGED notCrawl

\* A browser call raises: "except Exception: return []".  The locals go
\* out of scope.
CrawlError ==
    /\ c_pc \in {"head", "scroll", "closing"}
    /\ result' = <<>>
    /\ aborted' = TRUE
    /\ c_pc' = "done"
    /\ dwr_payloads' = <<>> /\ ordered' = <<>> /\ crawl_index' = EmptyDict
    /\ processed_dwr' = 0 /\ last_count' = 0 /\ last_dwr' = 0
    /\ stable_rounds' = 0 /\ scrolls' = 0
    /\ rounds' = 0 /\ quiet' = 0 /\ drained' = 0 /\ stuck' = FALSE
    /\ taken' = <<>>
    /\ UNCHANGED crawlParams
    /\ UNCHANGED notCrawl

(***************************************************************************)
(* LofterAdapter.search and the dynamic-crawl cache (lofter.py)            *)
(***************************************************************************)
\* _dynamic_cache_ttl_seconds
DEFAULT_TTL == 300

\* settings.LOFTER_MAX_PAGE_SIZE (config.py)
LOFTER_MAX_PAGE_SIZE == 30

\* "ttl = settings.LOFTER_DYNAMIC_CACHE_TTL or self._dynamic_cache_ttl_seconds"
Ttl(cfg) == IF cfg # 0 THEN cfg ELSE DEFAULT_TTL

\* "time.time() - entry['timestamp'] > ttl"
ExpiredReversed(t, stamp, ttl) == stamp - t > ttl
Expired(t, stamp, ttl) == t - stamp > ttl

\* "if max_page_size and page_size > max_page_size: page_size = max_page_size"
CapPageSize(page_size) ==
    IF LOFTER_MAX_PAGE_SIZE # 0 /\ page_size > LOFTER_MAX_PAGE_SIZE
      THEN LOFTER_MAX_PAGE_SIZE ELSE page_size

\* dict.pop(key, None)
DictPop(d, k) == [x \in (DOMAIN d) \ {k} |-> d[x]]

Entry(items, stamp) == [items |-> items, timestamp |-> stamp, exhausted |-> FALSE]

\* _get_dynamic_cache(key): the cache afterwards and the entry returned
\* (found = FALSE for None).
get_dynamic_cache(cache, key, t, cfg) ==
    IF key \notin DOMAIN cache
      THEN [cache |-> cache, found |-> FALSE, entry |-> Entry(<<>>, 0)]
    ELSE IF Expired(t, cache[key].timestamp, Ttl(cfg))
      THEN [cache |-> DictPop(cache, key), found |-> FALSE,
            entry |-> Entry(<<>>, 0)]
    ELSE [cache |-> cache, found |-> TRUE, entry |-> cache[key]]

\* _set_dynamic_cache(key, items, exhausted)
set_dynamic_cache(cache, key, items, t) == DictSet(cache, key, Entry(items, t))

\* Lines 109-116: the cached items followed by the crawled items whose key
\* is not among them yet.
SeenOf(ns) == [k \in {KeyOf(ns[i]) : i \in 1 .. Len(ns)} |-> 0]
MergeReplaces(cached_items, crawled) == crawled
MergeCrawled(cached_items, crawled) ==
    seen_loop(cached_items, crawled, SeenOf(cached_items)).novels

\* Lines 120-127 (and 93): the requested page of a list.
PageOf(ns, offset, page_size) ==
    IF offset >= Len(ns) THEN <<>> ELSE Slice(ns, offset, page_size)

\* What a crawl can return with return_all=True: a duplicate-free list, or
\* nothing when it failed.
CrawlResults ==
    {[k \in 1 .. Len(ids) |-> DomNovel(ids[k])] :
        ids \in {<<>>, <<1>>, <<2, 1>>}}

\* _dynamic_cache_key(tag, ranking_type, exclude_tags): the searches of
\* SpecCache all ask for the same key, those of SpecManyKeys for key after
\* key.
CacheKeys == {1}

\* The (page, page_size) requests made.
Requests == {<<1, 1>>, <<2, 1>>, <<1, 2>>}

IdleTask ==
    [pc |-> "idle", key |-> 0, offset |-> 0, page_size |-> 0,
     cached_items |-> <<>>, target_total |-> 0, result |-> <<>>,
     hit |-> FALSE, age |-> 0, expired |-> FALSE, crawled |-> <<>>]

CacheIdle ==
    /\ dynamic_cache = EmptyDict /\ cfg_ttl = 0 /\ cfg_cookie = ""
    /\ now = 0 /\ ticks = 0
    /\ task = <<>>

\* The adapter after construction: an empty class-level cache.
CacheStart ==
    /\ dynamic_cache = EmptyDict
    /\ cfg_ttl \in {0, 1}
    /\ cfg_cookie \in {"", "cookie"}
    /\ now = 0
    /\ ticks = 0
    /\ task = [p \in 1 .. MaxTasks |-> IdleTask]

\* "if not cookie" (lofter.py 54-57) and "if not refresh_token" (pixiv.py
\* 35-36): whether the credential setting is non-empty.
AlwaysConfigured(credential) == TRUE
Configured(credential) == credential # ""

\* search without a cookie (lines 54-57): [] before anything else is done.
SearchNoCookie(p) ==
    /\ task[p].pc = "idle"
    /\ ~Configured(cfg_cookie)
    /\ task' = [task EXCEPT ![p] = [IdleTask EXCEPT !.pc = "done"]]
    /\ UNCHANGED <<dynamic_cache, cfg_ttl, cfg_cookie, now, ticks>>
    /\ UNCHANGED notCache

\* search up to its await (lines 54-95): the lookup, and either the page
\* served from the cache or the start of a crawl.
SearchBegin(p, key, page, page_size_arg) ==
    /\ task[p].pc = "idle"
    /\ Configured(cfg_cookie)
    /\ LET page_size == CapPageSize(page_size_arg)
           offset == (page - 1) * page_size
           got == get_dynamic_cache(dynamic_cache, key, now, cfg_ttl)
           cached_items == IF got.found THEN got.entry.items ELSE <<>>
       IN  /\ dynamic_cache' = got.cache
           /\ IF got.found /\ Len(cached_items) >= offset + page_size
                THEN task' = [task EXCEPT ![p] =
                        [pc |-> "done", key |-> key, offset |-> offset,
                         page_size |-> page_size,
                         cached_items |-> cached_items, target_total |-> 0,
                         result |-> Slice(cached_items, offset, page_size),
                         hit |-> TRUE, age |-> now - got.entry.timestamp,
                         expired |-> FALSE, crawled |-> <<>>]]
                ELSE task' = [task EXCEPT ![p] =
                        [pc |-> "crawling", key |-> key, offset |-> offset,
                         page_size |-> page_size,
                         cached_items |-> cached_items,
                         target_total |->
                            Max(offset + page_size,
                                Len(cached_items) + page_size),
                         result |-> <<>>, hit |-> FALSE, age |-> 0,
                         expired |-> (key \in DOMAIN dynamic_cache
                                       /\ ~got.found),
                         crawled |-> <<>>]]
    /\ UNCHANGED <<cfg_ttl, cfg_cookie, now, ticks>>
    /\ UNCHANGED notCache

\* search after its await (lines 109-127): merge the crawl result into the
\* items read before the crawl, write the entry, return the page.
SearchEnd(p, crawled) ==
    /\ task[p].pc = "crawling"
    /\ LET merged == MergeCrawled(task[p].cached_items, crawled)
       IN  /\ dynamic_cache' =
                set_dynamic_cache(dynamic_cache, task[p].key, merged, now)
           /\ task' = [task EXCEPT ![p].pc = "done",
                                   ![p].crawled = crawled,
                                   ![p].result =
                                      PageOf(merged, task[p].offset,
                                             task[p].page_size)]
    /\ UNCHANGED <<cfg_ttl, cfg_cookie, now, ticks>>
    /\ UNCHANGED notCache

\* The coroutine has returned; the slot takes the next request.
SearchReturn(p) ==
    /\ task[p].pc = "done"
    /\ task' = [task EXCEPT ![p] = IdleTask]
    /\ UNCHANGED <<dynamic_cache, cfg_ttl, cfg_cookie, now, ticks>>
    /\ UNCHANGED notCache

\* CredentialManager.clear("lofter") (cookie = "") or _lofter_worker (a
\* captured cookie) writes settings.LOFTER_COOKIE.
LofterCredentialWrite(cookie) ==
    /\ cfg_cookie # cookie
    /\ cfg_cookie' = cookie
    /\ UNCHANGED <<dynamic_cache, cfg_ttl, now, ticks, task>>
    /\ UNCHANGED notCache

\* The clock advances.
Tick(d) ==
    /\ ticks < MaxTicks
    /\ now' = now + d
    /\ ticks' = ticks + 1
    /\ UNCHANGED <<dynamic_cache, cfg_ttl, cfg_cookie, task>>
    /\ UNCHANGED notCache

(***************************************************************************)
(* BilibiliClient.fetch_article (bilibili_client.py)                       *)
(***************************************************************************)
RETRYABLE_CODES == {-352, -401, -412}

\* The message returned when the loop body never ran (line 160; a fixed
\* non-ASCII string in the source).
FETCH_FAILED == "fetch-failed"

\* str(error_code) for the codes the upstream answers with here.
Str(code) ==
    CASE code = -352 -> "-352" [] code = -401 -> "-401" [] code = -412 -> "-412"
      [] code = -404 -> "-404" [] code = 0 -> "0"

\* What one request can come back with: a JSON body (code, message, data;
\* "" for an absent or empty message, None for absent or empty data), or
\* an exception from client.get / raise_for_status / response.json, whose
\* str() may be empty.
JsonBody(code, message, data) ==
    [kind |-> "json", code |-> code, message |-> message, data |-> data]
Raised(text) == [kind |-> "raise", code |-> 0, message |-> text, data |-> None]
Upstream ==
    {JsonBody(0, "", "article"), JsonBody(0, "", None),
     JsonBody(-412, "blocked", None), JsonBody(-352, "", None),
     JsonBody(-404, "gone", None), JsonBody(-404, "", None),
     Raised("timeout"), Raised("")}

\* generate_buvid3(): a token built from a new uuid4 (the next one drawn).
generate_buvid3(drawn) == drawn + 1

\* _get_buvid3(): the token, generated first when there is none.
get_buvid3(token, drawn) ==
    IF token = 0
      THEN [token |-> generate_buvid3(drawn), drawn |-> drawn + 1]
      ELSE [token |-> token, drawn |-> drawn]

\* _regenerate_buvid3()
regenerate_kept(token, drawn) == [token |-> token, drawn |-> drawn]
regenerate_buvid3(token, drawn) ==
    [token |-> generate_buvid3(drawn), drawn |-> drawn + 1]

\* "error_code in RETRYABLE_CODES and attempt < max_retries"
RetriesAnyCode(code, n, limit) == n < limit
Retries(code, n, limit) == code \in RETRYABLE_CODES /\ n < limit

\* "if attempt < max_retries" of the except clause
RetriesAfterRaiseAlways(n, limit) == TRUE
RetriesAfterRaise(n, limit) == n < limit

\* "data.get('message') or str(error_code)"
MessageOf(resp) == IF resp.message # "" THEN resp.message ELSE Str(resp.code)

NoReturn == [payload |-> None, message |-> ""]

ClientIdle ==
    /\ buvid3 = 0 /\ uuids = 0 /\ max_retries = 0 /\ fa_attempt = 0
    /\ last_message = "" /\ sent = <<>> /\ responses = <<>> /\ fa_token0 = 0
    /\ fa_pc = "idle" /\ fa_out = NoReturn /\ fa_calls = 0

\* BilibiliClient(): no token yet, no call made.
ClientStart == ClientIdle

\* fetch_article(article_id, max_retries) up to the loop (lines 91-97).
FetchCall(limit) ==
    /\ fa_pc \in {"idle", "returned"}
    /\ fa_calls < MaxFetchCalls
    /\ fa_calls' = fa_calls + 1
    /\ max_retries' = limit
    /\ fa_attempt' = 0
    /\ last_message' = ""
    /\ sent' = <<>> /\ responses' = <<>>
    /\ fa_token0' = buvid3
    /\ fa_out' = NoReturn
    /\ fa_pc' = IF limit + 1 > 0 THEN "loop" ELSE "tail"
    /\ UNCHANGED <<buvid3, uuids>>
    /\ UNCHANGED notClient

\* One pass whose request is answered with code 0 (lines 99-114).
AttemptOk(resp) ==
    /\ fa_pc = "loop" /\ resp.kind = "json" /\ resp.code = 0
    /\ \E h \in {get_buvid3(buvid3, uuids)} :
          /\ sent' = Append(sent, h.token)
          /\ buvid3' = h.token /\ uuids' = h.drawn
    /\ responses' = Append(responses, resp)
    /\ fa_out' = [payload |-> resp.data, message |-> ""]
    /\ fa_pc' = "returned"
    /\ UNCHANGED <<max_retries, fa_attempt, last_message, fa_token0, fa_calls>>
    /\ UNCHANGED notClient

\* One pass answered with a retryable code before the last attempt (lines
\* 116-131): sleep, new token, next pass.
AttemptRetried(resp) ==
    /\ fa_pc = "loop" /\ resp.kind = "json" /\ resp.code # 0
    /\ Retries(resp.code, fa_attempt, max_retries)
    /\ \E h \in {get_buvid3(buvid3, uuids)} :
          /\ sent' = Append(sent, h.token)
          /\ \E g \in {regenerate_buvid3(h.token, h.drawn)} :
                buvid3' = g.token /\ uuids' = g.drawn
    /\ responses' = Append(responses, resp)
    /\ last_message' = MessageOf(resp)
    /\ fa_attempt' = fa_attempt + 1
    /\ UNCHANGED <<max_retries, fa_token0, fa_pc, fa_out, fa_calls>>
    /\ UNCHANGED notClient

\* One pass answered with another code, or with a retryable code on the
\* last attempt (lines 116-117, 133-140).
AttemptRejected(resp) ==
    /\ fa_pc = "loop" /\ resp.kind = "json" /\ resp.code # 0
    /\ ~Retries(resp.code, fa_attempt, max_retries)
    /\ \E h \in {get_buvid3(buvid3, uuids)} :
          /\ sent' = Append(sent, h.token)
          /\ buvid3' = h.token /\ uuids' = h.drawn
    /\ responses' = Append(responses, resp)
    /\ last_message' = MessageOf(resp)
    /\ fa_out' = [payload |-> None, message |-> MessageOf(resp)]
    /\ fa_pc' = "returned"
    /\ UNCHANGED <<max_retries, fa_attempt, fa_token0, fa_calls>>
    /\ UNCHANGED notClient

\* One pass whose request raises (lines 142-158): a new token and the next
\* pass, or on the last attempt the return of str(e).
AttemptRaised(resp) ==
    /\ fa_pc = "loop" /\ resp.kind = "raise"
    /\ \E h \in {get_buvid3(buvid3, uuids)} :
          /\ sent' = Append(sent, h.token)
          /\ IF RetriesAfterRaise(fa_attempt, max_retries)
               THEN \E g \in {regenerate_buvid3(h.token, h.drawn)} :
                       buvid3' = g.token /\ uuids' = g.drawn
               ELSE buvid3' = h.token /\ uuids' = h.drawn
    /\ responses' = Append(responses, resp)
    /\ last_message' = resp.message
    /\ IF RetriesAfterRaise(fa_attempt, max_retries)
         THEN /\ fa_attempt' = fa_attempt + 1
              /\ UNCHANGED <<fa_pc, fa_out>>
         ELSE /\ fa_out' = [payload |-> None, message |-> resp.message]
              /\ fa_pc' = "returned"
              /\ UNCHANGED fa_attempt
    /\ UNCHANGED <<max_retries, fa_token0, fa_calls>>
    /\ UNCHANGED notClient

\* The loop body never ran (max_retries < 0): line 160.
FetchTail ==
    /\ fa_pc = "tail"
    /\ fa_out' = [payload |-> None,
                  message |-> IF last_message # "" THEN last_message
                              ELSE FETCH_FAILED]
    /\ fa_pc' = "returned"
    /\ UNCHANGED <<buvid3, uuids, max_retries, fa_attempt, last_message, sent,
                   responses, fa_token0, fa_calls>>
    /\ UNCHANGED notClient

(***************************************************************************)
(* PixivAdapter: session and operations (pixiv.py)                         *)
(***************************************************************************)
\* retries=2 of every with_retries call of the adapters.
ADAPTER_RETRIES == 2

Tokens == {"A", "B"}

PixivOps == {"search", "get_detail", "get_chapters", "get_chapter_content"}

\* The value an operation returns when it has nothing: [] for search, None
\* for get_detail and get_chapter_content.
EmptyOf(name) == IF name = "search" THEN "[]" ELSE "None"

\* _init_api(): the session afterwards, the value returned (ready), and
\* whether api.auth was called.  outcome is what api.auth does when called.
\* "if not refresh_token" is Configured, defined with the Lofter search.
ReusesAnyApi(api, token, refresh_token) == api # None
Reuses(api, token, refresh_token) == api # None /\ token = refresh_token

init_api(installed, api, token, refresh_token, outcome) ==
    IF ~Configured(refresh_token)
      THEN [api |-> None, token |-> None, ready |-> FALSE, auth |-> FALSE]
    ELSE IF Reuses(api, token, refresh_token)
      THEN [api |-> api, token |-> token, ready |-> TRUE, auth |-> FALSE]
    ELSE IF ~installed
      THEN [api |-> api, token |-> token, ready |-> FALSE, auth |-> FALSE]
    ELSE IF outcome = "ok"
      THEN [api |-> refresh_token, token |-> refresh_token, ready |-> TRUE,
            auth |-> TRUE]
    ELSE [api |-> None, token |-> token, ready |-> FALSE, auth |-> TRUE]

NoOp ==
    [adapter |-> "none", name |-> "none", pc |-> "idle", ready |-> FALSE, auth |-> FALSE,
     tags_left |-> 0, found |-> FALSE, api_calls |-> 0, result |-> "None",
     failed0 |-> FALSE, cfg0 |-> ""]

\* The session is Failed: no credential, or the configured one was rejected.
SessionFailed == px_cfg = "" \/ px_rejected = px_cfg

PixivIdle ==
    /\ px_installed = TRUE /\ px_cfg = "" /\ px_api = None /\ px_token = None
    /\ cred_pc = "idle" /\ logins = 0 /\ px_authed = None
    /\ px_rejected = None /\ px_reset_since = FALSE /\ op = NoOp /\ px_ops = 0

\* PixivAdapter(): no API object, no token; the setting comes from the
\* environment.
PixivStart ==
    /\ px_installed \in BOOLEAN
    /\ px_cfg \in {""} \cup Tokens
    /\ px_api = None /\ px_token = None
    /\ cred_pc = "idle" /\ logins = 0
    /\ px_authed = None /\ px_rejected = None /\ px_reset_since = FALSE
    /\ op = NoOp /\ px_ops = 0

\* The start of one with_retries(..., retries=2, base_delay, max_delay=2.0,
\* on_retry=...) call.
RetryBeginMore(base) ==
    /\ retries' = ADAPTER_RETRIES + 1 /\ base_delay' = base /\ max_delay' = 20
    /\ has_on_retry' = TRUE /\ attempt' = 0 /\ last_error' = NoError
    /\ calls' = <<>> /\ slept' = <<>> /\ hooked' = <<>>
    /\ r_pc' = "loop" /\ r_out' = NoError
RetryBegin(base) ==
    /\ retries' = ADAPTER_RETRIES /\ base_delay' = base /\ max_delay' = 20
    /\ has_on_retry' = TRUE /\ attempt' = 0 /\ last_error' = NoError
    /\ calls' = <<>> /\ slept' = <<>> /\ hooked' = <<>>
    /\ r_pc' = "loop" /\ r_out' = NoError

\* base_delay of the operation: 0.8 for search, 0.6 for the others.
BaseDelayOf(name) == IF name = "search" THEN 8 ELSE 6

\* What _init_api does to the session and to the record of authentications.
SessionStep(s) ==
    /\ px_api' = s.api /\ px_token' = s.token
    /\ px_authed' = IF s.auth /\ s.ready THEN px_cfg ELSE px_authed
    /\ px_rejected' = IF s.auth /\ s.ready THEN None
                      ELSE IF s.auth THEN px_cfg ELSE px_rejected
    /\ px_reset_since' = IF s.auth /\ s.ready THEN FALSE ELSE px_reset_since

\* get_chapters: a constant answer, no session, no upstream call.
PixivGetChapters ==
    /\ op.pc \in {"idle", "done"} /\ px_ops < MaxOps
    /\ px_ops' = px_ops + 1
    /\ op' = [NoOp EXCEPT !.adapter = "pixiv",
                          !.name = "get_chapters", !.pc = "done",
                          !.result = "chapters", !.failed0 = SessionFailed,
                          !.cfg0 = px_cfg]
    /\ UNCHANGED <<px_installed, px_cfg, px_api, px_token, cred_pc, logins,
                   px_authed, px_rejected, px_reset_since>>
    /\ UNCHANGED notPixiv

\* search / get_detail / get_chapter_content when _init_api returns False.
PixivCallNotReady(name, outcome) ==
    /\ op.pc \in {"idle", "done"} /\ px_ops < MaxOps
    /\ name # "get_chapters"
    /\ \E s \in {init_api(px_installed, px_api, px_token, px_cfg, outcome)} :
          /\ ~s.ready
          /\ SessionStep(s)
          /\ op' = [NoOp EXCEPT !.adapter = "pixiv",
                                !.name = name, !.pc = "done",
                                !.auth = s.auth, !.result = EmptyOf(name),
                                !.failed0 = SessionFailed, !.cfg0 = px_cfg]
    /\ px_ops' = px_ops + 1
    /\ UNCHANGED <<px_installed, px_cfg, cred_pc, logins>>
    /\ UNCHANGED notPixiv

\* search / get_detail / get_chapter_content when _init_api returns True:
\* the closure goes to the executor and starts its first with_retries.
PixivCallReady(name, outcome, ntags) ==
    /\ op.pc \in {"idle", "done"} /\ px_ops < MaxOps
    /\ name # "get_chapters"
    /\ name # "search" => ntags = 1
    /\ \E s \in {init_api(px_installed, px_api, px_token, px_cfg, outcome)} :
          /\ s.ready
          /\ SessionStep(s)
          /\ op' = [NoOp EXCEPT !.adapter = "pixiv",
                                !.name = name, !.pc = "fetching",
                                !.ready = TRUE, !.auth = s.auth,
                                !.tags_left = ntags,
                                !.failed0 = SessionFailed, !.cfg0 = px_cfg]
    /\ px_ops' = px_ops + 1
    /\ RetryBegin(BaseDelayOf(name))
    /\ UNCHANGED <<px_installed, px_cfg, cred_pc, logins>>
    /\ UNCHANGED notRetryPixiv

\* search: the with_retries of one tag is over and another tag follows.
\* parsed tells whether the items of the answer went through _parse_novel.
PixivNextTag(parsed) ==
    /\ op.adapter = "pixiv"
    /\ op.pc = "fetching" /\ r_pc \in {"returned", "raised"}
    /\ op.tags_left > 1
    /\ op' = [op EXCEPT !.tags_left = @ - 1,
                        !.found = @ \/ (r_pc = "returned" /\ parsed),
                        !.api_calls = @ + Len(calls)]
    /\ RetryBegin(BaseDelayOf(op.name))
    /\ UNCHANGED <<px_installed, px_cfg, px_api, px_token, cred_pc, logins,
                   px_authed, px_rejected, px_reset_since, px_ops>>
    /\ UNCHANGED notRetryPixiv

\* The closure returns: the value, or the empty value from an except clause.
PixivFinish(parsed) ==
    /\ op.adapter = "pixiv"
    /\ op.pc = "fetching" /\ r_pc \in {"returned", "raised"}
    /\ op.tags_left = 1
    /\ LET got == r_pc = "returned" /\ parsed
       IN  op' = [op EXCEPT !.pc = "done", !.tags_left = 0,
                            !.found = @ \/ got,
                            !.api_calls = @ + Len(calls),
                            !.result =
                               IF op.name = "search"
                                 THEN (IF op.found \/ got THEN "novels"
                                       ELSE "[]")
                               ELSE (IF got THEN "value" ELSE "None")]
    /\ UNCHANGED <<px_installed, px_cfg, px_api, px_token, cred_pc, logins,
                   px_authed, px_rejected, px_reset_since, px_ops>>
    /\ UNCHANGED notPixiv

\* CredentialManager.clear("pixiv") (tok = "") or _pixiv_worker (tok a
\* captured refresh token): the setting is written first.
CredentialWrite(tok) ==
    /\ cred_pc = "idle" /\ logins < MaxLogins
    /\ logins' = logins + 1
    /\ px_cfg' = tok
    /\ cred_pc' = "written"
    /\ px_authed' = IF tok = px_cfg THEN px_authed ELSE None
    /\ px_rejected' = IF tok = px_cfg THEN px_rejected ELSE None
    /\ UNCHANGED <<px_installed, px_api, px_token, px_reset_since, op, px_ops>>
    /\ UNCHANGED notPixiv

\* ... and then reset() is called on the adapter.
AdapterReset ==
    /\ cred_pc = "written"
    /\ px_api' = None /\ px_token' = None
    /\ px_reset_since' = TRUE
    /\ cred_pc' = "idle"
    /\ UNCHANGED <<px_installed, px_cfg, logins, px_authed, px_rejected, op,
                   px_ops>>
    /\ UNCHANGED notPixiv

(***************************************************************************)
(* search of the adapters: the stages that can raise and the except        *)
(* clause around each (ao3.py, pixiv.py, lofter.py, bilibili.py)           *)
(***************************************************************************)
Adapters == {"ao3", "pixiv", "lofter", "bilibili"}

\* n repetitions of a sequence.
RECURSIVE Times(_, _)
Times(n, seq) == IF n <= 0 THEN <<>> ELSE seq \o Times(n - 1, seq)

\* The calls of one search that can raise, in program order, for a search
\* that meets n items (AO3 works, Pixiv tags, Lofter scans, Bilibili
\* articles).
SearchStages(a, n) ==
    CASE a = "ao3" ->
           <<"AO3.Search", "search.update">> \o Times(n, <<"_convert_work">>)
      [] a = "pixiv" ->
           <<"_init_api">> \o Times(n, <<"search_novel", "_parse_novel">>)
             \o <<"sort">>
      [] a = "lofter" ->
           <<"launch", "goto">>
             \o Times(n, <<"page.content", "_parse_tag_page_html",
                           "page.evaluate">>)
             \o <<"close", "_parse_dwr_response">>
      [] a = "bilibili" ->
           <<"client.get">> \o Times(n, <<"_parse_article">>)
             \o <<"exclude">> \o Times(n, <<"get_detail">>) \o <<"gather">>

\* The stages that add an item to the result when they succeed.
Yields(stage) ==
    stage \in {"_convert_work", "_parse_novel", "_parse_tag_page_html",
               "_parse_dwr_response", "_parse_article"}

\* What the innermost except clause around a stage does with an exception:
\*   "return_empty"  return []            "skip_item"  continue with the next item
\*   "skip_tag"      continue with the next tag        "keep_item"  keep the hit
\* "propagate" would be a stage outside every try.
CatchInnerOnly(a, stage) ==
    CASE stage \in {"_convert_work", "_parse_article"} -> "skip_item"
      [] stage \in {"search_novel", "_parse_novel"} -> "skip_tag"
      [] stage = "get_detail" -> "keep_item"
      [] stage \in {"_init_api", "search.update"} -> "return_empty"
      [] OTHER -> "propagate"
Catch(a, stage) ==
    CASE stage \in {"_convert_work", "_parse_article"} -> "skip_item"
      [] stage \in {"search_novel", "_parse_novel"} -> "skip_tag"
      [] stage = "get_detail" -> "keep_item"
      [] OTHER -> "return_empty"

\* The stage after one that raised and was caught by a "continue".
AfterSkip(stage, k) == IF stage = "search_novel" THEN k + 2 ELSE k + 1

\* The stages of the search in progress.
Stages == SearchStages(sr_adapter, sr_hits)

SearchIdle ==
    /\ sr_adapter = "none" /\ sr_hits = 0 /\ sr_stage = 0 /\ sr_items = 0
    /\ sr_raised = <<>> /\ sr_out = "idle"

SearchStart ==
    /\ sr_adapter \in Adapters /\ sr_hits \in 1 .. MaxHits
    /\ sr_stage = 1 /\ sr_items = 0
    /\ sr_raised = <<>> /\ sr_out = "running"

\* One stage runs to its end.
StagePasses ==
    /\ sr_out = "running" /\ sr_stage <= Len(Stages)
    /\ sr_items' = IF Yields(Stages[sr_stage])
                     THEN sr_items + 1 ELSE sr_items
    /\ sr_stage' = sr_stage + 1
    /\ UNCHANGED <<sr_adapter, sr_hits, sr_raised, sr_out>>
    /\ UNCHANGED notSearch

\* One stage raises an Exception: the except clause around it decides.
StageRaises ==
    /\ sr_out = "running" /\ sr_stage <= Len(Stages)
    /\ sr_raised' = Append(sr_raised, Stages[sr_stage])
    /\ \E handler \in {Catch(sr_adapter, Stages[sr_stage])} :
          CASE handler = "return_empty" ->
                 /\ sr_out' = "list" /\ sr_items' = 0
                 /\ UNCHANGED sr_stage
            [] handler = "propagate" ->
                 /\ sr_out' = "raised"
                 /\ UNCHANGED <<sr_stage, sr_items>>
            [] OTHER ->
                 /\ sr_stage' = AfterSkip(Stages[sr_stage], sr_stage)
                 /\ UNCHANGED <<sr_items, sr_out>>
    /\ UNCHANGED <<sr_adapter, sr_hits>>
    /\ UNCHANGED notSearch

\* The last stage is over: the list is returned.
SearchReturns ==
    /\ sr_out = "running" /\ sr_stage > Len(Stages)
    /\ sr_out' = "list"
    /\ UNCHANGED <<sr_adapter, sr_hits, sr_stage, sr_items, sr_raised>>
    /\ UNCHANGED notSearch

(***************************************************************************)
(* AO3Adapter: get_detail, get_chapters, get_chapter_content (ao3.py)      *)
(***************************************************************************)
Ao3Fetches == {"get_detail", "get_chapters", "get_chapter_content"}

\* The value of the except clause: [] for get_chapters, None for the others.
Ao3EmptyOf(name) == IF name = "get_chapters" THEN "[]" ELSE "None"

Ao3Idle == AO3_AVAILABLE = TRUE

Ao3Start == AO3_AVAILABLE \in BOOLEAN

\* "if not AO3_AVAILABLE: return None" (or []).
Ao3CallUnavailable(name) ==
    /\ ~AO3_AVAILABLE
    /\ op.pc \in {"idle", "done"} /\ px_ops < MaxOps
    /\ px_ops' = px_ops + 1
    /\ op' = [NoOp EXCEPT !.adapter = "ao3", !.name = name, !.pc = "done",
                          !.result = Ao3EmptyOf(name)]
    /\ UNCHANGED <<px_installed, px_cfg, px_api, px_token, cred_pc, logins,
                   px_authed, px_rejected, px_reset_since>>
    /\ UNCHANGED notPixiv

\* _get_detail_sync / _get_chapters_sync / _get_chapter_content_sync start
\* in the executor: with_retries(lambda: AO3.Work(int(novel_id)), retries=2,
\* base_delay=0.6, max_delay=2.0, on_retry=...).
Ao3Call(name) ==
    /\ AO3_AVAILABLE
    /\ op.pc \in {"idle", "done"} /\ px_ops < MaxOps
    /\ px_ops' = px_ops + 1
    /\ op' = [NoOp EXCEPT !.adapter = "ao3", !.name = name,
                          !.pc = "fetching", !.ready = TRUE, !.tags_left = 1]
    /\ RetryBegin(6)
    /\ UNCHANGED <<px_installed, px_cfg, px_api, px_token, cred_pc, logins,
                   px_authed, px_rejected, px_reset_since>>
    /\ UNCHANGED notRetryPixiv

\* The rest of the function: the converted work (or chapter list, or text)
\* or, from the except clause, the empty value.  parsed tells whether the
\* conversion of the work went through; absent tells whether the chapter
\* asked for does not exist.
Ao3Finish(parsed, absent) ==
    /\ op.adapter = "ao3"
    /\ op.pc = "fetching" /\ r_pc \in {"returned", "raised"}
    /\ LET got == r_pc = "returned" /\ parsed
       IN  op' = [op EXCEPT !.pc = "done", !.tags_left = 0,
                            !.api_calls = @ + Len(calls),
                            !.result =
                               IF ~got THEN Ao3EmptyOf(op.name)
                               ELSE IF op.name = "get_chapters" THEN "chapters"
                               ELSE IF op.name = "get_chapter_content" /\ absent
                                 THEN "None"
                               ELSE "value"]
    /\ UNCHANGED <<px_installed, px_cfg, px_api, px_token, cred_pc, logins,
                   px_authed, px_rejected, px_reset_since, px_ops>>
    /\ UNCHANGED notPixiv

(***************************************************************************)
(* BilibiliAdapter.search: the enrichment of the hits (bilibili.py)        *)
(***************************************************************************)
\* asyncio.Semaphore(3)
SEMAPHORE_PERMITS == 3

\* What "detail = await self.get_detail(novel.id)" can give: None (the
\* fetch failed, get_detail caught it, or the article has no data), a
\* detail without tags, a detail whose tags match no exclude pattern, a
\* detail with a tag that matches one (exclude_any_tag), or an exception
\* raised inside the try of check_and_filter.
Details == {"None", "no_tags", "clean_tags", "excluded_tags", "raises"}

\* The body of check_and_filter after the fetch: what becomes of the hit.
VerdictDropsFailures(detail) ==
    CASE detail = "excluded_tags" -> "dropped"
      [] detail = "clean_tags" -> "enriched"
      [] detail \in {"None", "raises"} -> "dropped"
      [] OTHER -> "original"
Verdict(detail) ==
    CASE detail = "excluded_tags" -> "dropped"
      [] detail = "clean_tags" -> "enriched"
      [] OTHER -> "original"

\* "async with semaphore": a permit is free.
CanAcquireAlways(value) == TRUE
CanAcquire(value) == value > 0

\* "[r for r in results if r is not None and not isinstance(r, Exception)]"
RECURSIVE Survivors(_, _, _)
Survivors(form, k, n) ==
    IF k >= n THEN <<>>
    ELSE (IF form[k] = "dropped" THEN <<>> ELSE <<<<k, form[k]>>>>)
           \o Survivors(form, k + 1, n)

EnrichIdle ==
    /\ en_hits = 0 /\ en_pc = <<>> /\ en_detail = <<>> /\ en_form = <<>>
    /\ semaphore = 0 /\ en_result = <<>> /\ en_phase = "idle"

\* The gather has created one task per hit (index 0 .. n-1); none has run.
EnrichStart ==
    /\ en_hits \in 1 .. MaxEnrich
    /\ en_pc = [i \in 0 .. en_hits - 1 |-> "waiting"]
    /\ en_detail = [i \in 0 .. en_hits - 1 |-> "pending"]
    /\ en_form = [i \in 0 .. en_hits - 1 |-> "original"]
    /\ semaphore = SEMAPHORE_PERMITS
    /\ en_result = <<>>
    /\ en_phase = "running"

\* Task i enters "async with semaphore" (the tasks start in index order and
\* the semaphore wakes its waiters first-in first-out), then sleeps 0.3 s
\* when index > 0, else calls get_detail at once.
Acquire(i) ==
    /\ en_phase = "running" /\ i \in DOMAIN en_pc /\ en_pc[i] = "waiting"
    /\ \A j \in DOMAIN en_pc : j < i => en_pc[j] # "waiting"
    /\ CanAcquire(semaphore)
    /\ semaphore' = semaphore - 1
    /\ en_pc' = [en_pc EXCEPT ![i] = IF i > 0 THEN "sleeping" ELSE "fetching"]
    /\ UNCHANGED <<en_hits, en_detail, en_form, en_result, en_phase>>
    /\ UNCHANGED notEnrich

\* The sleep of task i is over: it calls get_detail.
Wake(i) ==
    /\ en_phase = "running" /\ i \in DOMAIN en_pc /\ en_pc[i] = "sleeping"
    /\ en_pc' = [en_pc EXCEPT ![i] = "fetching"]
    /\ UNCHANGED <<en_hits, en_detail, en_form, semaphore, en_result, en_phase>>
    /\ UNCHANGED notEnrich

\* get_detail of task i is over: the task decides, returns and releases.
DetailReturns(i, detail) ==
    /\ en_phase = "running" /\ i \in DOMAIN en_pc /\ en_pc[i] = "fetching"
    /\ en_detail' = [en_detail EXCEPT ![i] = detail]
    /\ en_form' = [en_form EXCEPT ![i] = Verdict(detail)]
    /\ en_pc' = [en_pc EXCEPT ![i] = "done"]
    /\ semaphore' = semaphore + 1
    /\ UNCHANGED <<en_hits, en_result, en_phase>>
    /\ UNCHANGED notEnrich

\* Every task is done: the gather returns and the list is rebuilt.
Gather ==
    /\ en_phase = "running"
    /\ \A i \in DOMAIN en_pc : en_pc[i] = "done"
    /\ en_result' = Survivors(en_form, 0, en_hits)
    /\ en_phase' = "gathered"
    /\ UNCHANGED <<en_hits, en_pc, en_detail, en_form, semaphore>>
    /\ UNCHANGED notEnrich

(***************************************************************************)
(* Tag filter: exclude and exclude_any_tag (utils.py)                      *)
(***************************************************************************)
\* A str is the sequence of its characters; the alphabet has a letter in
\* both cases and a second letter.
Alphabet == {"a", "A", "b"}
Texts == SeqsUpTo(Alphabet, MaxText)
PatternLists == SeqsUpTo(Texts, MaxPatterns)
TagSeqs == SeqsUpTo(Texts, MaxTagList)

\* str.lower()
lower(text) == [i \in 1 .. Len(text) |-> IF text[i] = "A" THEN "a" ELSE text[i]]

\* "needle in haystack" on str: needle is a contiguous part of haystack
\* (the empty str is in every str).
In(needle, haystack) ==
    \E k \in 0 .. Len(haystack) - Len(needle) :
        SubSeq(haystack, k + 1, k + Len(needle)) = needle

\* The truth value of a str: "if not text", "if pattern", "if not tag".
IsSetAlways(text) == TRUE
IsSet(text) == Len(text) > 0

\* exclude(text, patterns)
exclude(text, patterns) ==
    IF ~IsSet(text) THEN FALSE
    ELSE \E i \in 1 .. Len(patterns) :
            IsSet(patterns[i]) /\ In(lower(patterns[i]), lower(text))

\* exclude_any_tag(tags, exclude_patterns)
exclude_any_tag(tags, exclude_patterns) ==
    IF Len(tags) = 0 THEN FALSE
    ELSE \E j \in 1 .. Len(tags) :
            /\ IsSet(tags[j])
            /\ \E i \in 1 .. Len(exclude_patterns) :
                  /\ IsSet(exclude_patterns[i])
                  /\ In(lower(exclude_patterns[i]), lower(tags[j]))

FilterIdle ==
    /\ fl_text = <<>> /\ fl_tags = <<>> /\ fl_patterns = <<>>
    /\ fl_call = "idle" /\ fl_result = FALSE

\* A caller holds an item's tags and an exclude list.
FilterStart ==
    /\ fl_text = <<>>
    /\ fl_tags \in TagSeqs
    /\ fl_patterns \in PatternLists
    /\ fl_call = "none"
    /\ fl_result = FALSE

ExcludeCall(text) ==
    /\ fl_call = "none"
    /\ fl_text' = text
    /\ fl_call' = "exclude"
    /\ fl_result' = exclude(text, fl_patterns)
    /\ UNCHANGED <<fl_tags, fl_patterns>>
    /\ UNCHANGED notFilter

ExcludeAnyTagCall ==
    /\ fl_call = "none"
    /\ fl_call' = "exclude_any_tag"
    /\ fl_result' = exclude_any_tag(fl_tags, fl_patterns)
    /\ UNCHANGED <<fl_text, fl_tags, fl_patterns>>
    /\ UNCHANGED notFilter

(***************************************************************************)
(* PixivAdapter.search: the merge of the per-tag results (pixiv.py)        *)
(***************************************************************************)
\* novel_data of the upstream: title, create_date, total_bookmarks.
NovelData == [title : {<<"a">>, <<"A", "b">>}, create_date : 1 .. MaxDate,
              total_bookmarks : 1 .. MaxDate]
Catalogs == [1 .. MaxWorks -> NovelData]
SortBys == {"date", "kudos"}
ExcludeLists == {<<>>, <<<<"b">>>>}

\* sort="date_desc" if sort_by == "date" else "popular_desc"
UpstreamSort(sort_by) == IF sort_by = "date" THEN "date_desc" ELSE "popular_desc"

\* What the upstream orders a result page by.
UpstreamKey(catalog, sort, id) ==
    IF sort = "date_desc" THEN catalog[id].create_date
    ELSE catalog[id].total_bookmarks

\* result.get("novels", []) of search_novel(word=tag, sort=...): distinct
\* works in the order the upstream was asked for.
ResultPages(catalog, sort) ==
    {p \in SeqsUpTo(1 .. MaxWorks, MaxWorks) :
        /\ \A i, j \in 1 .. Len(p) : i # j => p[i] # p[j]
        /\ \A i, j \in 1 .. Len(p) :
              i < j => UpstreamKey(catalog, sort, p[i])
                         >= UpstreamKey(catalog, sort, p[j])}

\* _parse_novel: published_at is create_date in ISO format, kudos is
\* total_bookmarks; the dates are numbered in chronological order.
published_at(catalog, id) == catalog[id].create_date

\* "for novel_data in result.get('novels', [])": a seen id is skipped, an
\* id is marked seen before its title goes through exclude.
RECURSIVE tag_loop(_, _, _, _, _, _)
tag_loop(page, k, acc, seen, catalog, exclude_tags) ==
    IF k > Len(page) THEN [all_novels |-> acc, seen_ids |-> seen]
    ELSE IF page[k] \in seen
         THEN tag_loop(page, k + 1, acc, seen, catalog, exclude_tags)
    ELSE IF exclude(catalog[page[k]].title, exclude_tags)
         THEN tag_loop(page, k + 1, acc, seen \cup {page[k]}, catalog,
                       exclude_tags)
    ELSE tag_loop(page, k + 1, Append(acc, page[k]), seen \cup {page[k]},
                  catalog, exclude_tags)

\* list.sort(key=..., reverse=True) is stable: x goes behind the elements
\* whose key is not smaller.
RECURSIVE InsertDesc(_, _, _)
InsertDesc(sorted, x, key) ==
    IF sorted = <<>> THEN <<x>>
    ELSE IF key[Head(sorted)] >= key[x]
         THEN <<Head(sorted)>> \o InsertDesc(Tail(sorted), x, key)
    ELSE <<x>> \o sorted

RECURSIVE SortDesc(_, _)
SortDesc(ns, key) ==
    IF ns = <<>> THEN <<>>
    ELSE InsertDesc(SortDesc(SubSeq(ns, 1, Len(ns) - 1), key), ns[Len(ns)], key)

\* The key of "all_novels.sort(key=lambda x: x.published_at or '',
\* reverse=True)".
SortKeyRequested(catalog, sort_by) ==
    [id \in 1 .. MaxWorks |-> UpstreamKey(catalog, UpstreamSort(sort_by), id)]
SortKey(catalog, sort_by) ==
    [id \in 1 .. MaxWorks |-> published_at(catalog, id)]

MergeIdle ==
    /\ ps_catalog = <<>> /\ ps_tags = 0 /\ ps_sort_by = "" /\ ps_page_size = 0
    /\ ps_exclude = <<>> /\ ps_tag = 0 /\ ps_calls = <<>> /\ all_novels = <<>>
    /\ ps_seen = {} /\ ps_out = <<>> /\ ps_pc = "idle"

\* _search starts: the session is ready, nothing is fetched yet.
MergeStart ==
    /\ ps_catalog \in Catalogs
    /\ ps_tags \in 1 .. MaxTags
    /\ ps_sort_by \in SortBys
    /\ ps_page_size \in 1 .. MaxWorks
    /\ ps_exclude \in ExcludeLists
    /\ ps_tag = 0 /\ ps_calls = <<>> /\ all_novels = <<>> /\ ps_seen = {}
    /\ ps_out = <<>> /\ ps_pc = "loop"

\* with_retries of the next tag returns a result: its novels are merged.
PixivTagReturns(page) ==
    /\ ps_pc = "loop" /\ ps_tag < ps_tags
    /\ page \in ResultPages(ps_catalog, UpstreamSort(ps_sort_by))
    /\ \E d \in {tag_loop(page, 1, all_novels, ps_seen, ps_catalog, ps_exclude)} :
          /\ all_novels' = d.all_novels
          /\ ps_seen' = d.seen_ids
    /\ ps_tag' = ps_tag + 1
    /\ ps_calls' = Append(ps_calls, [raised |-> FALSE, novels |-> page])
    /\ UNCHANGED <<ps_catalog, ps_tags, ps_sort_by, ps_page_size, ps_exclude,
                   ps_out, ps_pc>>
    /\ UNCHANGED notMerge

\* with_retries of the next tag raises: "except Exception: continue".
PixivTagRaises ==
    /\ ps_pc = "loop" /\ ps_tag < ps_tags
    /\ ps_tag' = ps_tag + 1
    /\ ps_calls' = Append(ps_calls, [raised |-> TRUE, novels |-> <<>>])
    /\ UNCHANGED <<ps_catalog, ps_tags, ps_sort_by, ps_page_size, ps_exclude,
                   all_novels, ps_seen, ps_out, ps_pc>>
    /\ UNCHANGED notMerge

\* After the loop: sort, "return all_novels[:page_size]".
PixivSearchReturns ==
    /\ ps_pc = "loop" /\ ps_tag = ps_tags
    /\ \E sorted \in {SortDesc(all_novels, SortKey(ps_catalog, ps_sort_by))} :
          /\ all_novels' = sorted
          /\ ps_out' = SubSeq(sorted, 1, Min(ps_page_size, Len(sorted)))
    /\ ps_pc' = "returned"
    /\ UNCHANGED <<ps_catalog, ps_tags, ps_sort_by, ps_page_size, ps_exclude,
                   ps_tag, ps_calls, ps_seen>>
    /\ UNCHANGED notMerge

(***************************************************************************)
(* The Lofter parsers: what they drop (lofter_parse.py, lofter.py)         *)
(***************************************************************************)
\* The texts of at most one character.
ShortTexts == {t \in Texts : Len(t) <= 1}

\* One post of a payload or of a tag page, after sanitize: its title, its
\* digest (RPC) or summary text (tag page), its tags.
Posts == [title : Texts, digest : ShortTexts,
          tags : SeqsUpTo(ShortTexts, MaxTagList)]

\* Stands for the placeholder title and the placeholder summary, whose
\* characters no pattern of the model holds.
PlaceholderText == <<"_">>
NoItem == [title |-> <<>>, summary |-> <<>>, tags |-> <<"none">>]

\* parse_dwr_response: "title = sanitize(title) if title else ''", then the
\* digest stands in for a missing title, then the placeholder.
DwrTitle(post) ==
    IF IsSet(post.title) THEN post.title
    ELSE IF IsSet(post.digest) THEN post.digest
    ELSE PlaceholderText

\* "tags = [sanitize(tag) for tag in tags if tag]" (RPC), "for t in ... if
\* t.get_text(strip=True)" (tag page)
ParsedTags(post) == SelectSeq(post.tags, IsSet)

\* "any(pattern in title for pattern in exclude_tags)"
AnyPatternIn(title, exclude_tags) ==
    \E i \in 1 .. Len(exclude_tags) : In(exclude_tags[i], title)

\* The "continue" tests of the RPC parsers.
DwrDrops(i, post, exclude_tags) ==
    IF i = "module"
      THEN \/ exclude(DwrTitle(post), exclude_tags)
           \/ exclude_any_tag(ParsedTags(post), exclude_tags)
      ELSE AnyPatternIn(DwrTitle(post), exclude_tags)

\* The "continue" tests of the tag-page parsers.
TagPageDrops(i, post, exclude_tags) ==
    IF i = "module"
      THEN \/ IsSet(post.title) /\ exclude(post.title, exclude_tags)
           \/ exclude_any_tag(ParsedTags(post), exclude_tags)
      ELSE IsSet(post.title) /\ AnyPatternIn(post.title, exclude_tags)

\* The Novel the RPC parsers build ("tags[:10]" keeps every tag of a list
\* this short).
DwrItem(post) ==
    [title |-> DwrTitle(post),
     summary |-> IF IsSet(post.digest) THEN post.digest ELSE PlaceholderText,
     tags |-> ParsedTags(post)]

\* The Novel the tag-page parsers build.
TagPageItem(post) ==
    [title |-> IF IsSet(post.title) THEN post.title ELSE PlaceholderText,
     summary |-> IF IsSet(post.digest) THEN post.digest ELSE PlaceholderText,
     tags |-> ParsedTags(post)]

ParseIdle ==
    /\ pr_impl = "none" /\ pr_post = NoItem /\ pr_exclude = <<>>
    /\ pr_parser = "idle" /\ pr_item = NoItem

\* A parser is about to meet a post that has a blog name and a new id.
ParseStart ==
    /\ pr_impl \in {"module", "adapter"}
    /\ pr_post \in Posts
    /\ pr_exclude \in SeqsUpTo(ShortTexts, MaxPatterns)
    /\ pr_parser = "none"
    /\ pr_item = NoItem

\* One round of "for _, post in post_candidates" of parse_dwr_response.
ParseDwrPost ==
    /\ pr_parser = "none"
    /\ pr_parser' = "dwr"
    /\ pr_item' = IF DwrDrops(pr_impl, pr_post, pr_exclude) THEN NoItem
                  ELSE DwrItem(pr_post)
    /\ UNCHANGED <<pr_impl, pr_post, pr_exclude>>
    /\ UNCHANGED notParse

\* One round of "for item in items" of parse_tag_page_html.
ParseTagPageItem ==
    /\ pr_parser = "none"
    /\ pr_parser' = "tag_page"
    /\ pr_item' = IF TagPageDrops(pr_impl, pr_post, pr_exclude) THEN NoItem
                  ELSE TagPageItem(pr_post)
    /\ UNCHANGED <<pr_impl, pr_post, pr_exclude>>
    /\ UNCHANGED notParse

(***************************************************************************)
(* search: the tags asked for and the tags searched (lofter.py, ao3.py,    *)
(* pixiv.py)                                                               *)
(***************************************************************************)
\* Stands for the built-in tag of the adapters (SOYOSAKI_TAGS, the default
\* of Pixiv search).
DEFAULT_TAG == <<"b">>

\* The tags a caller asks for: non-empty texts.
RequestedTags == SeqsUpTo(ShortTexts \ {<<>>}, MaxTagList)

\* list(dict.fromkeys(tags)): the first occurrence of each, in order.
RECURSIVE Dedupe(_)
Dedupe(ts) ==
    IF ts = <<>> THEN <<>>
    ELSE LET rest == Dedupe(SubSeq(ts, 1, Len(ts) - 1))
         IN  IF \E i \in 1 .. Len(rest) : rest[i] = ts[Len(ts)] THEN rest
             ELSE Append(rest, ts[Len(ts)])

\* The tags each adapter searches the upstream for.
\*   lofter: search_tags = tags + SOYOSAKI_TAGS without repeats; the tag
\*           page crawled is the built-in tag when it is among them, else
\*           the first one.
\*   ao3:    any_field is the OR of tags + SOYOSAKI_TAGS.
\*   pixiv:  one search per tag of "tags if tags else [built-in tag]".
Queries(adapter, tags) ==
    CASE adapter = "lofter" ->
           LET search_tags == Dedupe(tags \o <<DEFAULT_TAG>>)
           IN  IF \E i \in 1 .. Len(search_tags) : search_tags[i] = DEFAULT_TAG
                 THEN <<DEFAULT_TAG>> ELSE <<search_tags[1]>>
      [] adapter = "ao3" -> Dedupe(tags \o <<DEFAULT_TAG>>)
      [] OTHER -> IF Len(tags) > 0 THEN tags ELSE <<DEFAULT_TAG>>

\* An item of the upstream: title, summary, tags.
Items == [title : ShortTexts, summary : ShortTexts,
          tags : SeqsUpTo(ShortTexts \ {<<>>}, 1)]

\* The upstream answers a query for tag with the items that hold tag in
\* their tags, title or summary, case ignored.
UpstreamMatches(item, tag) ==
    \/ In(lower(tag), lower(item.title))
    \/ In(lower(tag), lower(item.summary))
    \/ \E k \in 1 .. Len(item.tags) : In(lower(tag), lower(item.tags[k]))

IncludeIdle ==
    /\ in_adapter = "none" /\ in_tags = <<>> /\ in_queries = <<>>
    /\ in_item = NoItem /\ in_pc = "idle"

IncludeStart ==
    /\ in_adapter \in {"lofter", "ao3", "pixiv"}
    /\ in_tags \in RequestedTags
    /\ in_queries = <<>>
    /\ in_item = NoItem
    /\ in_pc = "called"

\* search builds what it asks the upstream.
BuildQueries ==
    /\ in_pc = "called"
    /\ in_queries' = Queries(in_adapter, in_tags)
    /\ in_pc' = "queried"
    /\ UNCHANGED <<in_adapter, in_tags, in_item>>
    /\ UNCHANGED notInclude

\* The upstream answers with an item that matches what it was asked, and
\* search returns it: no adapter tests the item against tags.
ReturnHit(item) ==
    /\ in_pc = "queried"
    /\ \E q \in 1 .. Len(in_queries) : UpstreamMatches(item, in_queries[q])
    /\ in_item' = item
    /\ in_pc' = "returned"
    /\ UNCHANGED <<in_adapter, in_tags, in_queries>>
    /\ UNCHANGED notInclude

(***************************************************************************)
(* AO3Adapter._search_sync: the window of one page (ao3.py)                *)
(***************************************************************************)
WorkTitles == {<<"a">>, <<"b">>}
ResultLists == SeqsUpTo(WorkTitles, MaxResults)
NotCalled == <<0>>

\* "start = (page - 1) * page_size"
WindowStart(page, page_size) == (page - 1) * page_size

\* "end = start + page_size * 2"
WindowEnd(page, page_size) == WindowStart(page, page_size) + page_size * 2

\* The loop over search.results[start:end] from its i-th element (counted
\* from 1): stop at page_size kept works, skip the titles exclude() hits.
\* A work is named by its position in the result list.
RECURSIVE window_loop(_, _, _, _, _, _)
window_loop(results, exclude_tags, i, end, page_size, kept) ==
    IF i > end \/ i > Len(results) \/ Len(kept) >= page_size THEN kept
    ELSE IF exclude(results[i], exclude_tags)
      THEN window_loop(results, exclude_tags, i + 1, end, page_size, kept)
      ELSE window_loop(results, exclude_tags, i + 1, end, page_size,
                       Append(kept, i))

\* _search_sync after a successful update (lines 99-118).
search_sync(results, exclude_tags, page, page_size) ==
    window_loop(results, exclude_tags, WindowStart(page, page_size) + 1,
                WindowEnd(page, page_size), page_size, <<>>)

PagesIdle ==
    /\ ao_results = <<>> /\ ao_exclude = <<>> /\ ao_page_size = 1
    /\ ao_pages = [p \in 1 .. MaxPage |-> NotCalled]
    /\ ao_failed = {}

\* One query against one upstream result list: no page asked for yet.
PagesStart ==
    /\ ao_results \in ResultLists
    /\ ao_exclude \in ExcludeLists
    /\ ao_page_size \in 1 .. MaxPageSize
    /\ ao_pages = [p \in 1 .. MaxPage |-> NotCalled]
    /\ ao_failed = {}

\* search(page = p) whose update succeeds.
SearchPage(p) ==
    /\ ao_pages[p] = NotCalled
    /\ ao_pages' = [ao_pages EXCEPT
                      ![p] = search_sync(ao_results, ao_exclude, p, ao_page_size)]
    /\ UNCHANGED <<ao_results, ao_exclude, ao_page_size, ao_failed>>
    /\ UNCHANGED notPages

\* search(page = p) whose update fails after the retries: [] (lines 95-97).
SearchPageFails(p) ==
    /\ ao_pages[p] = NotCalled
    /\ ao_pages' = [ao_pages EXCEPT ![p] = <<>>]
    /\ ao_failed' = ao_failed \cup {p}
    /\ UNCHANGED <<ao_results, ao_exclude, ao_page_size>>
    /\ UNCHANGED notPages

(***************************************************************************)
(* CredentialManager: the login workers (credential_service.py)            *)
(***************************************************************************)
Sources == {"lofter", "pixiv"}

\* "record.running = state == 'running'" of _set_state
RunningOf(state) == state = "running"

\* "if state.running: return state" of _start
AlreadyRunningNever(running) == FALSE
AlreadyRunning(running) == running

ManagerIdle ==
    /\ cm_state = [s \in Sources |-> "idle"]
    /\ cm_running = [s \in Sources |-> FALSE]
    /\ cm_threads = [s \in Sources |-> 0]
    /\ cm_ops = 0

\* CredentialManager(): both sources idle, no thread.
ManagerStart == ManagerIdle

\* _start(source, target), under the lock of the source: nothing when the
\* running flag is set, else the state is set to running and a thread is
\* started.
start(source) ==
    /\ cm_ops < MaxManagerOps
    /\ cm_ops' = cm_ops + 1
    /\ IF AlreadyRunning(cm_running[source])
         THEN UNCHANGED <<cm_state, cm_running, cm_threads>>
         ELSE /\ cm_state' = [cm_state EXCEPT ![source] = "running"]
              /\ cm_running' = [cm_running EXCEPT ![source] = TRUE]
              /\ cm_threads' = [cm_threads EXCEPT ![source] = @ + 1]
    /\ UNCHANGED notManager

\* clear(source): the credentials are emptied and _set_state(source,
\* "idle", ...) is called, without the lock and whatever the threads do.
clear(source) ==
    /\ cm_ops < MaxManagerOps
    /\ cm_ops' = cm_ops + 1
    /\ cm_state' = [cm_state EXCEPT ![source] = "idle"]
    /\ cm_running' = [cm_running EXCEPT ![source] = RunningOf("idle")]
    /\ UNCHANGED cm_threads
    /\ UNCHANGED notManager

\* _lofter_worker / _pixiv_worker reach their end: _set_state(source,
\* "success" or "error", ...), and the thread is over.
WorkerEnds(source, outcome) ==
    /\ cm_threads[source] > 0
    /\ cm_state' = [cm_state EXCEPT ![source] = outcome]
    /\ cm_running' = [cm_running EXCEPT ![source] = RunningOf(outcome)]
    /\ cm_threads' = [cm_threads EXCEPT ![source] = @ - 1]
    /\ UNCHANGED cm_ops
    /\ UNCHANGED notManager

(***************************************************************************)
(* Properties of the retry executor                                        *)
(***************************************************************************)
AllRetryable == \A k \in 1 .. Len(calls) : calls[k] = "retryable"

\* C1: when every invocation of func raises a retryable exception and
\* retries = n >= 0, func is invoked at most n + 1 times, with_retries never
\* returns a value, and when it raises it has invoked func exactly n + 1
\* times and raises the exception of the last invocation.
C1_RetryBound ==
    (retries >= 0 /\ AllRetryable) =>
        /\ Len(calls) <= retries + 1
        /\ r_pc # "returned"
        /\ r_pc = "raised" =>
              /\ Len(calls) = retries + 1
              /\ r_out = Produced("retryable", retries + 1)

C1_Witness ==
    /\ retries = 2 /\ AllRetryable /\ r_pc = "raised" /\ Len(calls) = 3
    /\ r_out = Produced("retryable", 3)

\* The invocations of func that raised a matching exception while another
\* attempt was left: the failed attempts with 0-based index below retries.
FailedBeforeLast ==
    {k \in 1 .. Len(calls) : calls[k] = "retryable" /\ k - 1 < retries}

\* C25: with_retries waits exactly min(base_delay * 2^k, max_delay) after
\* the failed attempt with 0-based index k, for k = 0 .. retries - 1; it
\* calls on_retry(error, k + 1) once for each such wait; it neither waits
\* nor calls on_retry after the final failed attempt.
C25_BackoffSchedule ==
    /\ Len(slept) = Cardinality(FailedBeforeLast)
    /\ Len(slept) <= Max(retries, 0)
    /\ \A k \in 1 .. Len(slept) :
          slept[k] = IF base_delay * 2 ^ (k - 1) <= max_delay
                       THEN base_delay * 2 ^ (k - 1) ELSE max_delay
    /\ has_on_retry =>
          /\ Len(hooked) = Len(slept)
          /\ \A k \in 1 .. Len(hooked) :
                hooked[k] = <<Produced("retryable", k), k>>
    /\ ~has_on_retry => hooked = <<>>

\* C25 witness: retries = 3, base_delay 0.6 s, max_delay 2.0 s, four failed
\* attempts: the waits were 0.6 s, 1.2 s and 2.0 s, on_retry ran three times
\* and the error was raised.
C25_Witness ==
    /\ retries = 3 /\ has_on_retry /\ r_pc = "raised" /\ Len(calls) = 4
    /\ slept = <<6, 12, 20>>
    /\ Len(hooked) = 3

(***************************************************************************)
(* Properties of merge_novel_fields                                        *)
(***************************************************************************)
\* C2: merging the same incoming item a second time leaves every field of
\* the existing item as the first merge left it and returns False.
C2_IdempotentMerge ==
    applied = 2 => (existing = first_out /\ updated = FALSE)

C2_Witness ==
    applied = 2 /\ first_out # first_in /\ existing = first_out

PlaceholderTitle(t) == t \in {"", TITLE_PLACEHOLDER}
PlaceholderSummary(t) == t \in {"", SUMMARY_PLACEHOLDER}
PlaceholderAuthor(t) == t \in {"", AUTHOR_PLACEHOLDER}
AbsentCover(c) == c \in {None, ""}
NoTags(g) == g = <<>>

\* C3: a call changes a field only from a placeholder or empty value to the
\* non-placeholder value of the incoming item; source and id never change.
C3_MonotoneEnrichment ==
    [][/\ existing'.source = existing.source /\ existing'.id = existing.id
       /\ existing'.title # existing.title =>
            /\ PlaceholderTitle(existing.title)
            /\ ~PlaceholderTitle(incoming.title)
            /\ existing'.title = incoming.title
       /\ existing'.summary # existing.summary =>
            /\ PlaceholderSummary(existing.summary)
            /\ ~PlaceholderSummary(incoming.summary)
            /\ existing'.summary = incoming.summary
       /\ existing'.author # existing.author =>
            /\ PlaceholderAuthor(existing.author)
            /\ ~PlaceholderAuthor(incoming.author)
            /\ existing'.author = incoming.author
       /\ existing'.cover_image # existing.cover_image =>
            /\ AbsentCover(existing.cover_image)
            /\ ~AbsentCover(incoming.cover_image)
            /\ existing'.cover_image = incoming.cover_image
       /\ existing'.tags # existing.tags =>
            /\ NoTags(existing.tags)
            /\ ~NoTags(incoming.tags)
            /\ existing'.tags = incoming.tags]_vars

\* A merge that enriched the placeholder fields and kept the good ones.
C3_Witness ==
    /\ applied = 1
    /\ first_in.title = TITLE_PLACEHOLDER /\ existing.title = "t1"
    /\ first_in.summary = "s2" /\ incoming.summary = "s1"
    /\ existing.summary = "s2"
    /\ first_in.author = "a1" /\ incoming.author = AUTHOR_PLACEHOLDER
    /\ existing.author = "a1"

(***************************************************************************)
(* Properties of merge_novel_list                                          *)
(***************************************************************************)
\* C4: the accumulator never holds two entries with the same (source, id).
C4_NoDuplicateKeys ==
    \A i, j \in 1 .. Len(novels) :
        KeyOf(novels[i]) = KeyOf(novels[j]) => i = j

\* An item was given twice in one call and once more in a later call.
C4_Witness ==
    /\ ncalls >= 2 /\ Len(last_incoming) = 2
    /\ KeyOf(last_incoming[1]) = KeyOf(last_incoming[2])
    /\ \E i \in 1 .. Len(novels) : KeyOf(novels[i]) = KeyOf(last_incoming[1])
    /\ Len(novels) >= 2

\* The keys of inc not in seen, each once, in order of first occurrence.
RECURSIVE UnseenKeys(_, _)
UnseenKeys(inc, seen) ==
    IF inc = <<>> THEN <<>>
    ELSE IF KeyOf(Head(inc)) \in seen THEN UnseenKeys(Tail(inc), seen)
    ELSE <<KeyOf(Head(inc))>>
           \o UnseenKeys(Tail(inc), seen \cup {KeyOf(Head(inc))})

KeysOf(ns) == [i \in 1 .. Len(ns) |-> KeyOf(ns[i])]

\* C5: a call keeps every earlier item at its position, changing at most
\* placeholder fields of it, and appends the items not seen before in
\* incoming order.
C5_AppendOnly ==
    [][ncalls' # ncalls =>
        /\ Len(novels') >= Len(novels)
        /\ \A i \in 1 .. Len(novels) :
              /\ KeyOf(novels'[i]) = KeyOf(novels[i])
              /\ novels'[i].title # novels[i].title =>
                    PlaceholderTitle(novels[i].title)
        /\ KeysOf(novels') =
              KeysOf(novels)
                \o UnseenKeys(last_incoming',
                              {KeyOf(novels[i]) : i \in 1 .. Len(novels)})]_vars

\* A call that enriched an earlier item in place and appended two new ones.
C5_Witness ==
    /\ ncalls >= 2 /\ Len(novels) = 3 /\ Len(last_incoming) = 2
    /\ KeysOf(novels) = <<KeyOf(novels[1]), KeyOf(last_incoming[1]),
                          KeyOf(last_incoming[2])>>
    /\ novels[1].title = "t1"

(***************************************************************************)
(* Properties of the dynamic-crawl loop                                    *)
(***************************************************************************)
NoDuplicates(ns) ==
    \A i, j \in 1 .. Len(ns) : KeyOf(ns[i]) = KeyOf(ns[j]) => i = j

\* The run of the scenario: target_total = 50, every scan saw the same 20
\* entries, no payload was intercepted, no browser call failed.
StuckRun ==
    /\ target_total = 50 /\ stuck /\ rounds >= 1 /\ dwr_payloads = <<>>
    /\ ~aborted /\ c_pc # "idle"

\* C6: the loop body runs only while scrolls < max_scrolls, the accumulator
\* is below target_total and fewer than 6 scans in a row were without
\* change, hence at most max_scrolls times; in the scenario run the
\* accumulator holds the 20 entries without duplicates, at most 6 scans
\* follow the one that found them, and the 20 items are returned.
C6_LoopTerminates ==
    [][   /\ rounds' = rounds + 1 =>
               /\ scrolls < max_scrolls
               /\ Len(ordered) < target_total
               /\ stable_rounds < StableLimit(impl)
               /\ quiet < 6
               /\ rounds' <= max_scrolls
          /\ c_pc' = "closing" /\ c_pc = "head" =>
               \/ scrolls >= max_scrolls
               \/ Len(ordered) >= target_total
               \/ stable_rounds >= StableLimit(impl)
          /\ StuckRun' =>
               /\ Len(ordered') = 20 /\ NoDuplicates(ordered')
               /\ rounds' <= 7
               /\ c_pc' = "done" =>
                    (call'.return_all => result' = ordered')]_vars

\* The scenario run has ended and returned the 20 items.
C6_Witness ==
    /\ StuckRun /\ c_pc = "done" /\ call.return_all /\ Len(result) = 20
    /\ NoDuplicates(result) /\ rounds = StableLimit(impl) + 1

\* C7: after each scan stable_rounds is the number of trailing scans that
\* changed neither the size of the accumulator nor the number of processed
\* payloads, and it is 0 after a scan that processed a payload.
C7_StableRounds ==
    (c_pc \in {"head", "scroll", "closing"} \/ (c_pc = "done" /\ ~aborted)) =>
        /\ stable_rounds = quiet
        /\ drained > 0 => stable_rounds = 0
        /\ stable_rounds <= StableLimit(impl)

\* After quiet scans, a scan processed a payload without posts: the size
\* of the accumulator stayed the same and the counter went back to 0.
C7_Witness ==
    /\ c_pc = "scroll" /\ rounds >= 3 /\ drained > 0 /\ Len(ordered) = 0
    /\ stable_rounds = 0 /\ dwr_payloads = <<<<>>>>

\* The keys of the items of a list.
KeysIn(ns) == {KeyOf(ns[k]) : k \in 1 .. Len(ns)}

\* The crawl runs or has returned its result without a browser failure.
CrawlAlive ==
    c_pc \in {"head", "scroll", "closing"} \/ (c_pc = "done" /\ ~aborted)

\* C27: the payloads of the buffer are merged once each and in arrival
\* order (the merged ones are the first processed_dwr of the buffer, each
\* of their posts is in the accumulator), the processed index only grows,
\* a scan leaves no payload of the buffer unmerged, so one that arrives
\* during the scroll wait is merged by the next scan, and the final drain
\* leaves none unmerged when the result is returned.
C27_PayloadsMergedOnceInOrder ==
    /\ [](CrawlAlive =>
            /\ taken = [k \in 1 .. processed_dwr |-> k]
            /\ processed_dwr <= Len(dwr_payloads)
            /\ \A k \in 1 .. processed_dwr :
                  KeysIn(parse_dwr_response(dwr_payloads[k])) \subseteq KeysIn(ordered)
            /\ c_pc = "done" => processed_dwr = Len(dwr_payloads))
    /\ [][CrawlAlive' =>
            /\ processed_dwr' >= processed_dwr
            /\ rounds' = rounds + 1 => processed_dwr' = Len(dwr_payloads)]_vars

\* C27 witness: one payload arrived before a scan and was merged by it, a
\* second one arrived after the last scan and was merged by the final
\* drain; the crawl has returned with both merged, in that order.
C27_Witness ==
    /\ c_pc = "done" /\ ~aborted
    /\ Len(dwr_payloads) = 2 /\ taken = <<1, 2>>
    /\ drained = 1 /\ last_dwr = 1 /\ processed_dwr = 2
    /\ dwr_payloads[2] # <<>>

(***************************************************************************)
(* Properties of the dynamic-crawl cache                                   *)
(***************************************************************************)
\* C8: the cache holds at most 20 entries.
C8_CacheBounded == Cardinality(DOMAIN dynamic_cache) <= 20

ItemsOf(entry) == {entry.items[i] : i \in 1 .. Len(entry.items)}

\* C9: a write to an entry that has not expired keeps every item the entry
\* held.
C9_EntryAppendOnly ==
    [][\A k \in (DOMAIN dynamic_cache) \cap (DOMAIN dynamic_cache') :
          now - dynamic_cache[k].timestamp <=
             (IF cfg_ttl = 0 THEN DEFAULT_TTL ELSE cfg_ttl)
            => ItemsOf(dynamic_cache[k]) \subseteq ItemsOf(dynamic_cache'[k])]_vars

C11_EntryExtended ==
    [][\A p \in DOMAIN task :
          /\ (task[p].pc = "crawling" /\ task'[p].pc = "done") =>
                LET old == task[p].cached_items
                    new == dynamic_cache'[task[p].key].items
                    got == task'[p].crawled
                    added == [j \in 1 .. Len(new) - Len(old) |-> new[Len(old) + j]]
                IN  /\ Len(new) >= Len(old)
                    /\ SubSeq(new, 1, Len(old)) = old
                    /\ \A j \in DOMAIN added :
                          /\ \E c \in DOMAIN got : got[c] = added[j]
                          /\ \A o \in DOMAIN old : KeyOf(old[o]) # KeyOf(added[j])
                          /\ \A h \in DOMAIN added :
                                KeyOf(added[h]) = KeyOf(added[j]) => h = j
                    /\ \A c \in DOMAIN got :
                          \E n \in DOMAIN new : KeyOf(new[n]) = KeyOf(got[c])
          /\ (task[p].pc = "idle" /\ task'[p].pc # "idle"
              /\ task'[p].key \in DOMAIN dynamic_cache') =>
                LET items == dynamic_cache'[task'[p].key].items
                    lo == task'[p].offset
                    hi == task'[p].offset + task'[p].page_size
                IN  IF Len(items) >= hi
                      THEN /\ task'[p].pc = "done"
                           /\ task'[p].result = SubSeq(items, lo + 1, hi)
                           /\ dynamic_cache' = dynamic_cache
                      ELSE /\ task'[p].pc = "crawling"
                           /\ task'[p].cached_items = items]_vars

\* A search for the second page found one cached item, crawled two posts of
\* which one was the cached one, and wrote the cached item followed by the
\* new one, while another search was served the first page from the cache.
C11_Witness ==
    \E p, q \in DOMAIN task :
        /\ task[p].pc = "done" /\ ~task[p].hit
        /\ Len(task[p].cached_items) = 1 /\ Len(task[p].crawled) = 2
        /\ KeyOf(task[p].crawled[2]) = KeyOf(task[p].cached_items[1])
        /\ dynamic_cache[task[p].key].items =
              task[p].cached_items \o <<task[p].crawled[1]>>
        /\ task[q].pc = "done" /\ task[q].hit
        /\ task[q].result = task[p].cached_items

(***************************************************************************)
(* Properties of the Bilibili article fetch                                *)
(***************************************************************************)
RetryableAnswer(k) ==
    /\ responses[k].kind = "json"
    /\ responses[k].code \in {-352, -401, -412}
    /\ k - 1 < max_retries

\* C12: after a retryable code (-352, -401, -412) on an attempt that is not
\* the last, the token is regenerated before the next request, which carries
\* a token different from the rejected one; and a call whose last answer has
\* code 0 has returned that answer's payload with an empty message.
C12_TokenRegenerated ==
    /\ \A k \in DOMAIN responses :
          RetryableAnswer(k) =>
             /\ k = Len(sent) => (fa_pc = "loop" /\ buvid3 # sent[k])
             /\ k < Len(sent) => sent[k + 1] # sent[k]
    /\ \A k \in DOMAIN responses :
          (responses[k].kind = "json" /\ responses[k].code = 0) =>
             /\ k = Len(responses)
             /\ fa_pc = "returned"
             /\ fa_out = [payload |-> responses[k].data, message |-> ""]

\* Code -412 on attempt 1 and code 0 on attempt 2: two requests with
\* different tokens, and the payload of the second returned.
C12_Witness ==
    /\ Len(responses) = 2 /\ responses[1].code = -412 /\ responses[2].code = 0
    /\ responses[2].kind = "json" /\ responses[2].data = "article"
    /\ sent[1] # sent[2]
    /\ fa_pc = "returned" /\ fa_out = [payload |-> "article", message |-> ""]

FatalAnswer(k) ==
    /\ responses[k].kind = "json"
    /\ responses[k].code # 0
    /\ responses[k].code \notin {-352, -401, -412}

UpstreamMessage(k) ==
    IF responses[k].message # "" THEN responses[k].message
    ELSE Str(responses[k].code)

\* C13 as stated: a call that received a non-retryable code sent exactly
\* one request.
C13_ExactlyOneRequest ==
    \A k \in DOMAIN responses :
        FatalAnswer(k) =>
           /\ Len(sent) = 1
           /\ buvid3 = sent[1]
           /\ fa_out = [payload |-> None, message |-> UpstreamMessage(k)]

\* C13 as amended: a non-retryable code ends the call at once: no request
\* is sent after the one it answered (so exactly one when it answered the
\* first), the token stays the one that request carried, and the returned
\* message is the upstream message, or the code when there is none.
C13_FailsImmediately ==
    \A k \in DOMAIN responses :
        FatalAnswer(k) =>
           /\ k = Len(responses) /\ Len(sent) = k
           /\ fa_pc = "returned"
           /\ buvid3 = sent[k]
           /\ fa_out = [payload |-> None, message |-> UpstreamMessage(k)]

\* Code -404 without a message answered the first request of a call that
\* allowed retries: one request, and "-404" returned.
C13_Witness ==
    /\ max_retries > 0
    /\ Len(responses) = 1 /\ FatalAnswer(1) /\ responses[1].message = ""
    /\ Len(sent) = 1 /\ fa_pc = "returned"
    /\ fa_out = [payload |-> None, message |-> "-404"]

RaisedAnswer(k) == responses[k].kind = "raise"

\* Every call in progress has sent at most max_retries + 1 requests, holds
\* a returned pair once it is over, and treats a raised exception as the
\* claim says.
FetchBounded ==
    /\ Len(sent) <= max_retries + 1
    /\ fa_pc = "returned" =>
          /\ fa_out.payload \in {None, "article"}
          /\ fa_out.payload # None => fa_out.message = ""
    /\ \A k \in DOMAIN responses :
          RaisedAnswer(k) =>
             IF k - 1 < max_retries
               THEN /\ k = Len(sent) => (fa_pc = "loop" /\ buvid3 # sent[k])
                    /\ k < Len(sent) => sent[k + 1] # sent[k]
               ELSE /\ k = Len(sent) /\ fa_pc = "returned"
                    /\ fa_out = [payload |-> None,
                                 message |-> responses[k].message]

\* C26: fetch_article sends at most max_retries + 1 requests whatever the
\* upstream answers, a request that raises is followed by a new token and
\* another attempt, or on the last attempt by the return of (None, message
\* of the exception), and every call that was started returns a pair.
C26_TerminatesWithPair ==
    /\ []FetchBounded
    /\ (fa_pc \in {"loop", "tail"}) ~> (fa_pc = "returned")

\* C26 witness: max_retries = 2 and three requests that raised: three
\* different tokens, and (None, message of the last exception) returned.
C26_Witness ==
    /\ max_retries = 2 /\ Len(responses) = 3
    /\ \A k \in 1 .. 3 : RaisedAnswer(k)
    /\ sent[1] # sent[2] /\ sent[2] # sent[3]
    /\ fa_pc = "returned"
    /\ fa_out = [payload |-> None, message |-> responses[3].message]

\* C28: whenever fetch_article returns None as article data, the message
\* it returns is not empty.
C28_NoDataHasMessage ==
    (fa_pc = "returned" /\ fa_out.payload = None) => fa_out.message # ""

\* The part of C28 that holds: a call ended by a non-zero code, or without
\* any request, returns no data and a message that is not empty.
C28_CodeHasMessage ==
    (/\ fa_pc = "returned"
     /\ \/ responses = <<>>
        \/ /\ responses[Len(responses)].kind = "json"
           /\ responses[Len(responses)].code # 0)
       => (fa_out.payload = None /\ fa_out.message # "")

(***************************************************************************)
(* Properties of the credential gate and of the Pixiv session              *)
(***************************************************************************)
\* C14: a search made while the credential of its source is not configured
\* returns the empty list at once: a Lofter search without a cookie starts
\* no crawl and does not touch the cache, a Pixiv search without a refresh
\* token makes no authentication call and no API call.
C14_NoCredentialNoCall ==
    [][/\ \A p \in DOMAIN task :
             (task[p].pc = "idle" /\ task'[p].pc # "idle" /\ cfg_cookie = "") =>
                /\ task'[p].pc = "done" /\ task'[p].result = <<>>
                /\ dynamic_cache' = dynamic_cache
       /\ (px_ops' = px_ops + 1 /\ op'.name = "search" /\ px_cfg = "") =>
             /\ op'.pc = "done" /\ op'.result = "[]"
             /\ ~op'.auth /\ op'.api_calls = 0
             /\ px_api' = None
             /\ r_pc' = r_pc /\ calls' = calls]_vars

\* Both credentials are missing, the Lofter cache still holds an entry from
\* before the cookie was cleared, and a Lofter search and a Pixiv search
\* have each returned the empty list.
C14_Witness ==
    /\ cfg_cookie = "" /\ px_cfg = ""
    /\ 1 \in DOMAIN dynamic_cache
    /\ task[1].pc = "done" /\ task[1].key = 0 /\ task[1].result = <<>>
    /\ op.name = "search" /\ op.pc = "done" /\ op.cfg0 = ""
    /\ op.result = "[]" /\ ~op.auth

\* C15: an operation called while the session is Failed (no credential, or
\* the configured credential was rejected) returns its empty value without
\* an authentication call and without an API call.
C15_FailedShortCircuits ==
    [][(px_ops' = px_ops + 1 /\ SessionFailed) =>
          /\ op'.pc = "done"
          /\ ~op'.auth /\ op'.api_calls = 0
          /\ op'.result \in {"[]", "None"}]_vars

\* C16 as stated: no authentication call is made while the configured token
\* is the one the last successful authentication used, and an operation
\* that finds the session ready finds the stored token equal to the
\* configured one and the API object set.
C16_NoReauthSameToken ==
    [][px_ops' = px_ops + 1 =>
          /\ op'.auth => px_authed # px_cfg
          /\ op'.ready => (px_token' = px_cfg /\ px_api' # None)]_vars

\* C16 as amended: the same, unless reset() ran since that authentication.
C16_ReauthOnChangeOrReset ==
    [][px_ops' = px_ops + 1 =>
          /\ op'.auth => (px_authed # px_cfg \/ px_reset_since)
          /\ op'.auth => (px_cfg # "" /\ (px_api = None \/ px_token # px_cfg))
          /\ op'.ready => (px_token' = px_cfg /\ px_api' # None)]_vars

\* After a credential write, a third operation found the session ready and
\* reused it: the token is the one authenticated before and no reset ran
\* since.
C16_Witness ==
    /\ px_ops = 3 /\ logins >= 1
    /\ op.ready /\ ~op.auth
    /\ px_authed = px_cfg /\ px_token = px_cfg /\ ~px_reset_since

(***************************************************************************)
(* Properties of search under upstream failure                             *)
(***************************************************************************)
\* C17: whatever stage of a search raises, for every adapter, the search
\* does not raise: it goes on or returns a list, and a search that is over
\* has returned a list, the empty one when the stage that fetches raised.
C17_SearchNeverRaises ==
    /\ sr_out # "raised"
    /\ (sr_out = "list" /\ sr_raised # <<>>
        /\ sr_raised[1] \in {"AO3.Search", "search.update", "_init_api",
                             "launch", "goto", "client.get"})
          => sr_items = 0

\* An AO3 search in which the conversion of one work raised returned the
\* other work.
C17_Witness ==
    /\ sr_adapter = "ao3" /\ sr_out = "list"
    /\ sr_raised = <<"_convert_work">> /\ sr_items = 1

(***************************************************************************)
(* Properties of the detail, chapter and content fetches                   *)
(***************************************************************************)
AllAttemptsFailed == calls # <<>> /\ \A k \in DOMAIN calls : calls[k] = "retryable"

SessionState == <<px_api, px_token, px_cfg, AO3_AVAILABLE, buvid3>>

\* C18: a detail, chapter-list or chapter-content fetch on AO3 or Pixiv
\* makes at most 3 upstream calls (retries = 2); when every one of them
\* fails it has made exactly 3 and returns the empty value (None, or [] for
\* the chapter list) instead of raising; and an attempt changes no session
\* or identity state.
C18_FetchRetriesThenEmpty ==
    [][/\ op'.pc = "fetching" => (retries' = 2 /\ Len(calls') <= 3)
       /\ (op.pc = "fetching" /\ op'.pc = "done" /\ op.name # "search"
           /\ AllAttemptsFailed) =>
             /\ Len(calls) = 3 /\ r_pc = "raised"
             /\ op'.result = (IF op.name = "get_chapters" THEN "[]" ELSE "None")
       /\ (op.pc = "fetching" /\ calls' # calls /\ calls' # <<>>) =>
             SessionState' = SessionState]_vars

\* An AO3 chapter-list fetch whose three calls all failed returned [], and
\* the two waits between them were 0.6 s and 1.2 s.
C18_Witness ==
    /\ op.adapter = "ao3" /\ op.name = "get_chapters" /\ op.pc = "done"
    /\ calls = <<"retryable", "retryable", "retryable">>
    /\ slept = <<6, 12>>
    /\ op.result = "[]" /\ op.api_calls = 3

(***************************************************************************)
(* Properties of the Bilibili enrichment                                   *)
(***************************************************************************)
InFlight == {i \in DOMAIN en_pc : en_pc[i] = "fetching"}

\* C19: at no time are more than 3 detail fetches in flight.
C19_AtMostThreeInFlight == Cardinality(InFlight) <= 3

\* Five hits: three fetches are in flight and the other two tasks wait for
\* a permit.
C19_Witness ==
    /\ en_hits = 5 /\ InFlight = {0, 1, 2}
    /\ en_pc[3] = "waiting" /\ en_pc[4] = "waiting" /\ semaphore = 0

\* C20: after the gather, every hit has been decided (no failure aborted
\* the batch); a hit is missing from the result exactly when its detail had
\* a tag matching an exclude pattern; a hit whose fetch failed or gave
\* nothing is in the result in its original form; and the result lists the
\* surviving hits in their original order.
C20_FailuresKeepTheHit ==
    en_phase = "gathered" =>
       /\ \A i \in DOMAIN en_pc : en_pc[i] = "done" /\ en_detail[i] # "pending"
       /\ \A i \in DOMAIN en_pc :
             (\E k \in DOMAIN en_result : en_result[k][1] = i)
                <=> en_detail[i] # "excluded_tags"
       /\ \A k \in DOMAIN en_result :
             en_detail[en_result[k][1]] \in {"None", "raises", "no_tags"}
                => en_result[k][2] = "original"
       /\ \A k, h \in DOMAIN en_result :
             k < h => en_result[k][1] < en_result[h][1]

\* Four hits: the first fetch gave nothing, the second raised, the third had
\* an excluded tag, the fourth had clean tags: the result is the first two
\* in their original form and the fourth enriched.
C20_Witness ==
    /\ en_phase = "gathered" /\ en_hits = 4
    /\ en_detail = [i \in 0 .. 3 |->
                      CASE i = 0 -> "None" [] i = 1 -> "raises"
                        [] i = 2 -> "excluded_tags" [] OTHER -> "clean_tags"]
    /\ en_result = <<<<0, "original">>, <<1, "original">>, <<3, "enriched">>>>

(***************************************************************************)
(* Properties of the Pixiv search merge                                    *)
(***************************************************************************)
\* C21: the list Pixiv search returns is in the requested ordering: by
\* creation date, newest first, when sort_by is "date", and by bookmark
\* count, highest first, otherwise.
C21_SortedByRequestedOrdering ==
    ps_pc = "returned" =>
        \A i, j \in 1 .. Len(ps_out) :
            i < j => SortKeyRequested(ps_catalog, ps_sort_by)[ps_out[i]]
                       >= SortKeyRequested(ps_catalog, ps_sort_by)[ps_out[j]]

\* The parts of C21 that do not depend on the ordering: at most page_size
\* items, no id twice, and every work of a tag that answered is in the
\* merged list unless its title is excluded, whatever the other tags did.
C21_BoundedDistinctAndKept ==
    ps_pc = "returned" =>
        /\ Len(ps_out) <= ps_page_size
        /\ \A i, j \in 1 .. Len(ps_out) : i # j => ps_out[i] # ps_out[j]
        /\ \A t \in 1 .. Len(ps_calls) : \A k \in 1 .. Len(ps_calls[t].novels) :
              exclude(ps_catalog[ps_calls[t].novels[k]].title, ps_exclude)
              \/ \E n \in 1 .. Len(all_novels) :
                    all_novels[n] = ps_calls[t].novels[k]

(***************************************************************************)
(* Properties of the tag filter                                            *)
(***************************************************************************)
\* Two characters are the same letter, whatever their case.
SameLetter(c, d) == c = d \/ {c, d} = {"a", "A"}

\* pattern occurs in text as a contiguous part, case ignored.
CaseInsensitiveSubstring(pattern, text) ==
    \E k \in 0 .. Len(text) - Len(pattern) :
        \A i \in 1 .. Len(pattern) : SameLetter(pattern[i], text[k + i])

\* C22: exclude(text, patterns) is true exactly when some non-empty pattern
\* is a case-insensitive substring of text (so it is false for an empty
\* text, for an empty pattern list, and an empty pattern never matches);
\* exclude_any_tag(tags, patterns) is true exactly when exclude holds for
\* at least one tag.
C22_ExcludeIsSubstringTest ==
    /\ fl_call = "exclude" =>
          /\ fl_result <=> \E i \in 1 .. Len(fl_patterns) :
                              /\ fl_patterns[i] # <<>>
                              /\ CaseInsensitiveSubstring(fl_patterns[i], fl_text)
          /\ fl_text = <<>> => ~fl_result
          /\ fl_patterns = <<>> => ~fl_result
          /\ (\A i \in 1 .. Len(fl_patterns) : fl_patterns[i] = <<>>) => ~fl_result
    /\ fl_call = "exclude_any_tag" =>
          (fl_result <=> \E j \in 1 .. Len(fl_tags) :
                            exclude(fl_tags[j], fl_patterns))

\* C22 witness: the text "bA" is tested against the patterns "" and "a":
\* the second one matches, in the other case and not at the start.
C22_Witness ==
    /\ fl_call = "exclude"
    /\ fl_text = <<"b", "A">>
    /\ fl_patterns = <<<<>>, <<"a">>>>
    /\ fl_result

(***************************************************************************)
(* Properties of the Lofter parsers                                        *)
(***************************************************************************)
\* C23: no item a Lofter parser emits has a title, a summary or a tag that
\* holds a non-empty exclude pattern as a case-insensitive substring.
C23_NoExcludedItemEmitted ==
    (pr_parser \in {"dwr", "tag_page"} /\ pr_item # NoItem) =>
        /\ ~exclude(pr_item.title, pr_exclude)
        /\ ~exclude(pr_item.summary, pr_exclude)
        /\ ~exclude_any_tag(pr_item.tags, pr_exclude)

\* The part of C23 the standalone parse module keeps: its items have no
\* excluded title and no excluded tag.
C23_ModuleTitleAndTags ==
    (pr_impl = "module" /\ pr_parser \in {"dwr", "tag_page"} /\ pr_item # NoItem) =>
        /\ ~exclude(pr_item.title, pr_exclude)
        /\ ~exclude_any_tag(pr_item.tags, pr_exclude)

(***************************************************************************)
(* Properties of the inclusion by tag                                      *)
(***************************************************************************)
\* The item matches the tag: the tag is a case-insensitive substring of
\* one of its tags, of its title or of its summary.
MatchesTag(item, tag) ==
    \/ CaseInsensitiveSubstring(tag, item.title)
    \/ CaseInsensitiveSubstring(tag, item.summary)
    \/ \E k \in 1 .. Len(item.tags) : CaseInsensitiveSubstring(tag, item.tags[k])

\* C24: every item search returns, when the caller asked for tags, matches
\* at least one of them.
C24_ReturnedMatchesRequested ==
    (in_pc = "returned" /\ Len(in_tags) > 0) =>
        \E i \in 1 .. Len(in_tags) : MatchesTag(in_item, in_tags[i])

\* The part of C24 that holds: the item matches one of the tags the
\* adapter searched for; for Pixiv called with tags these are the caller's.
C24_ReturnedMatchesSearched ==
    in_pc = "returned" =>
        /\ \E q \in 1 .. Len(in_queries) : MatchesTag(in_item, in_queries[q])
        /\ (in_adapter = "pixiv" /\ Len(in_tags) > 0) =>
              \E i \in 1 .. Len(in_tags) : MatchesTag(in_item, in_tags[i])

(***************************************************************************)
(* Properties of the AO3 pages                                             *)
(***************************************************************************)
ReturnedOn(p) == IF ao_pages[p] = NotCalled THEN {}
                 ELSE {ao_pages[p][k] : k \in 1 .. Len(ao_pages[p])}

\* C29: for one query and one unchanged result list, no work is returned
\* by both page p and page p + 1, also when the title filter drops works of
\* the window of page p.
C29_PagesDoNotOverlap ==
    \A p \in 1 .. MaxPage - 1 : ReturnedOn(p) \cap ReturnedOn(p + 1) = {}

\* The part of C29 that holds: consecutive pages share no work when none
\* of the works in the window of page p is dropped.
C29_DisjointWithoutDrops ==
    \A p \in 1 .. MaxPage - 1 :
        (\A i \in WindowStart(p, ao_page_size) + 1 .. WindowEnd(p, ao_page_size) :
             i <= Len(ao_results) => ~exclude(ao_results[i], ao_exclude))
          => ReturnedOn(p) \cap ReturnedOn(p + 1) = {}

(***************************************************************************)
(* Properties of the credential manager                                    *)
(***************************************************************************)
\* C30: at any time at most one worker thread of a source is running, and
\* the running flag of the source is true exactly while one is.
C30_OneWorkerPerSource ==
    \A s \in Sources :
        /\ cm_threads[s] <= 1
        /\ cm_running[s] <=> cm_threads[s] > 0

\* The part of C30 that holds: a start made while the running flag is set
\* starts no thread, and the flag is set only while a thread is active.
C30_StartGuardedByFlag ==
    /\ [][\A s \in Sources :
             cm_running[s] => cm_threads'[s] <= cm_threads[s]]_vars
    /\ [](\A s \in Sources : cm_running[s] => cm_threads[s] > 0)

(***************************************************************************)
(* Specifications                                                          *)
(***************************************************************************)
InitRetry ==
    RetryStart /\ FieldsIdle /\ ListIdle /\ CrawlIdle /\ CacheIdle /\ ClientIdle /\
    PixivIdle /\ SearchIdle /\ Ao3Idle /\ EnrichIdle /\ FilterIdle /\ MergeIdle /\
    ParseIdle /\ IncludeIdle /\ PagesIdle /\ ManagerIdle

SpecRetry == InitRetry /\ [][with_retries]_vars

InitFields ==
    FieldsStart /\ RetryIdle /\ ListIdle /\ CrawlIdle /\ CacheIdle /\ ClientIdle /\
    PixivIdle /\ SearchIdle /\ Ao3Idle /\ EnrichIdle /\ FilterIdle /\ MergeIdle /\
    ParseIdle /\ IncludeIdle /\ PagesIdle /\ ManagerIdle

NextFields == MergeFieldsCall

SpecFields == InitFields /\ [][NextFields]_vars

InitList ==
    ListStart /\ RetryIdle /\ FieldsIdle /\ CrawlIdle /\ CacheIdle /\ ClientIdle /\
    PixivIdle /\ SearchIdle /\ Ao3Idle /\ EnrichIdle /\ FilterIdle /\ MergeIdle /\
    ParseIdle /\ IncludeIdle /\ PagesIdle /\ ManagerIdle

NextList ==
    \E inc \in SeqsUpTo(ListNovels, MaxIncoming) :
        \/ MergeListThreaded(inc)
        \/ MergeListRebuilt(inc)

SpecList == InitList /\ [][NextList]_vars

InitCrawl ==
    CrawlStart /\ RetryIdle /\ FieldsIdle /\ ListIdle /\ CacheIdle /\ ClientIdle /\
    PixivIdle /\ SearchIdle /\ Ao3Idle /\ EnrichIdle /\ FilterIdle /\ MergeIdle /\
    ParseIdle /\ IncludeIdle /\ PagesIdle /\ ManagerIdle

NextCrawl ==
    \/ \E payload \in Payloads : on_response(payload)
    \/ \E snapshot \in DomSnapshots : Scan(snapshot)
    \/ Scroll
    \/ LoopExit
    \/ Finish
    \/ CrawlError

SpecCrawl == InitCrawl /\ [][NextCrawl]_vars

InitCache ==
    CacheStart /\ RetryIdle /\ FieldsIdle /\ ListIdle /\ CrawlIdle /\ ClientIdle /\
    PixivIdle /\ SearchIdle /\ Ao3Idle /\ EnrichIdle /\ FilterIdle /\ MergeIdle /\
    ParseIdle /\ IncludeIdle /\ PagesIdle /\ ManagerIdle

NextCache ==
    \/ \E p \in 1 .. MaxTasks, key \in CacheKeys, req \in Requests :
          SearchBegin(p, key, req[1], req[2])
    \/ \E p \in 1 .. MaxTasks, crawled \in CrawlResults : SearchEnd(p, crawled)
    \/ \E p \in 1 .. MaxTasks : SearchNoCookie(p)
    \/ \E p \in 1 .. MaxTasks : SearchReturn(p)
    \/ \E d \in {1, DEFAULT_TTL} : Tick(d)

SpecCache == InitCache /\ [][NextCache]_vars

\* Searches made one after the other within one second, each for a key
\* searched before or for the next new key.
InitManyKeys == InitCache

SearchKnownOrNextKey ==
    \E key \in 1 .. MaxManyKeys :
        /\ key <= Cardinality(DOMAIN dynamic_cache) + 1
        /\ SearchBegin(1, key, 1, 1)

CrawlOneItem ==
    \E crawled \in CrawlResults : Len(crawled) = 1 /\ SearchEnd(1, crawled)

NextManyKeys ==
    \/ SearchNoCookie(1)
    \/ SearchKnownOrNextKey
    \/ CrawlOneItem
    \/ SearchReturn(1)

SpecManyKeys == InitManyKeys /\ [][NextManyKeys]_vars

InitClient ==
    ClientStart /\ RetryIdle /\ FieldsIdle /\ ListIdle /\ CrawlIdle /\ CacheIdle /\
    PixivIdle /\ SearchIdle /\ Ao3Idle /\ EnrichIdle /\ FilterIdle /\ MergeIdle /\
    ParseIdle /\ IncludeIdle /\ PagesIdle /\ ManagerIdle

NextClient ==
    \/ \E limit \in -1 .. MaxFetchRetries : FetchCall(limit)
    \/ \E resp \in Upstream : AttemptOk(resp)
    \/ \E resp \in Upstream : AttemptRetried(resp)
    \/ \E resp \in Upstream : AttemptRejected(resp)
    \/ \E resp \in Upstream : AttemptRaised(resp)
    \/ FetchTail

SpecClient == InitClient /\ [][NextClient]_vars

InitPixiv ==
    PixivStart /\ RetryIdle /\ FieldsIdle /\ ListIdle /\ CrawlIdle /\ CacheIdle /\
    ClientIdle /\ SearchIdle /\ Ao3Idle /\ EnrichIdle /\ FilterIdle /\ MergeIdle /\
    ParseIdle /\ IncludeIdle /\ PagesIdle /\ ManagerIdle

NextPixiv ==
    \/ PixivGetChapters
    \/ \E name \in PixivOps, outcome \in {"ok", "rejected"} :
          PixivCallNotReady(name, outcome)
    \/ \E name \in PixivOps, outcome \in {"ok", "rejected"},
          ntags \in 1 .. MaxTags : PixivCallReady(name, outcome, ntags)
    \/ AttemptReturns
    \/ AttemptFails
    \/ TailRaises
    \/ \E parsed \in BOOLEAN : PixivNextTag(parsed)
    \/ \E parsed \in BOOLEAN : PixivFinish(parsed)
    \/ \E tok \in {""} \cup Tokens : CredentialWrite(tok)
    \/ AdapterReset

SpecPixiv == InitPixiv /\ [][NextPixiv]_vars

\* One Lofter search at a time and Pixiv searches, while the credential
\* manager writes and clears both credentials.
InitGate ==
    PixivStart /\ CacheStart /\ RetryIdle /\ FieldsIdle /\ ListIdle /\ CrawlIdle /\
    ClientIdle /\ SearchIdle /\ Ao3Idle /\ EnrichIdle /\ FilterIdle /\ MergeIdle /\
    ParseIdle /\ IncludeIdle /\ PagesIdle /\ ManagerIdle

LofterSearchFirstPage == SearchBegin(1, 1, 1, 1)

NextGate ==
    \/ SearchNoCookie(1)
    \/ LofterSearchFirstPage
    \/ CrawlOneItem
    \/ SearchReturn(1)
    \/ \E cookie \in {"", "cookie"} : LofterCredentialWrite(cookie)
    \/ \E outcome \in {"ok", "rejected"} : PixivCallNotReady("search", outcome)
    \/ \E outcome \in {"ok", "rejected"} : PixivCallReady("search", outcome, 1)
    \/ AttemptReturns
    \/ AttemptFails
    \/ TailRaises
    \/ \E parsed \in BOOLEAN : PixivFinish(parsed)
    \/ \E tok \in {""} \cup Tokens : CredentialWrite(tok)
    \/ AdapterReset

SpecGate == InitGate /\ [][NextGate]_vars

InitSearch ==
    SearchStart /\ RetryIdle /\ FieldsIdle /\ ListIdle /\ CrawlIdle /\ CacheIdle /\
    ClientIdle /\ PixivIdle /\ Ao3Idle /\ EnrichIdle /\ FilterIdle /\ MergeIdle /\
    ParseIdle /\ IncludeIdle /\ PagesIdle /\ ManagerIdle

NextSearch ==
    \/ StagePasses
    \/ StageRaises
    \/ SearchReturns

SpecSearch == InitSearch /\ [][NextSearch]_vars

\* The fetches of the AO3 and Pixiv adapters.
InitFetch ==
    PixivStart /\ Ao3Start /\ RetryIdle /\ FieldsIdle /\ ListIdle /\ CrawlIdle /\
    CacheIdle /\ ClientIdle /\ SearchIdle /\ EnrichIdle /\ FilterIdle /\ MergeIdle /\
    ParseIdle /\ IncludeIdle /\ PagesIdle /\ ManagerIdle

NextFetch ==
    \/ \E name \in Ao3Fetches : Ao3CallUnavailable(name)
    \/ \E name \in Ao3Fetches : Ao3Call(name)
    \/ \E parsed, absent \in BOOLEAN : Ao3Finish(parsed, absent)
    \/ \E name \in {"get_detail", "get_chapter_content"},
          outcome \in {"ok", "rejected"} : PixivCallNotReady(name, outcome)
    \/ \E name \in {"get_detail", "get_chapter_content"},
          outcome \in {"ok", "rejected"} : PixivCallReady(name, outcome, 1)
    \/ PixivGetChapters
    \/ \E parsed \in BOOLEAN : PixivFinish(parsed)
    \/ AttemptReturns
    \/ AttemptFails
    \/ TailRaises
    \/ \E tok \in {""} \cup Tokens : CredentialWrite(tok)
    \/ AdapterReset

SpecFetch == InitFetch /\ [][NextFetch]_vars

InitEnrich ==
    EnrichStart /\ RetryIdle /\ FieldsIdle /\ ListIdle /\ CrawlIdle /\ CacheIdle /\
    ClientIdle /\ PixivIdle /\ SearchIdle /\ Ao3Idle /\ FilterIdle /\ MergeIdle /\
    ParseIdle /\ IncludeIdle /\ PagesIdle /\ ManagerIdle

NextEnrich ==
    \/ \E i \in 0 .. MaxEnrich - 1 : Acquire(i)
    \/ \E i \in 0 .. MaxEnrich - 1 : Wake(i)
    \/ \E i \in 0 .. MaxEnrich - 1, detail \in Details : DetailReturns(i, detail)
    \/ Gather

SpecEnrich == InitEnrich /\ [][NextEnrich]_vars

InitFilter ==
    FilterStart /\ RetryIdle /\ FieldsIdle /\ ListIdle /\ CrawlIdle /\ CacheIdle /\
    ClientIdle /\ PixivIdle /\ SearchIdle /\ Ao3Idle /\ EnrichIdle /\ MergeIdle /\
    ParseIdle /\ IncludeIdle /\ PagesIdle /\ ManagerIdle

NextFilter ==
    \/ \E text \in Texts : ExcludeCall(text)
    \/ ExcludeAnyTagCall

SpecFilter == InitFilter /\ [][NextFilter]_vars

InitMerge ==
    MergeStart /\ RetryIdle /\ FieldsIdle /\ ListIdle /\ CrawlIdle /\ CacheIdle /\
    ClientIdle /\ PixivIdle /\ SearchIdle /\ Ao3Idle /\ EnrichIdle /\ FilterIdle /\
    ParseIdle /\ IncludeIdle /\ PagesIdle /\ ManagerIdle

NextMerge ==
    \/ \E page \in SeqsUpTo(1 .. MaxWorks, MaxWorks) : PixivTagReturns(page)
    \/ PixivTagRaises
    \/ PixivSearchReturns

SpecMerge == InitMerge /\ [][NextMerge]_vars

InitParse ==
    ParseStart /\ RetryIdle /\ FieldsIdle /\ ListIdle /\ CrawlIdle /\ CacheIdle /\
    ClientIdle /\ PixivIdle /\ SearchIdle /\ Ao3Idle /\ EnrichIdle /\ FilterIdle /\
    MergeIdle /\ IncludeIdle /\ PagesIdle /\ ManagerIdle

NextParse ==
    \/ ParseDwrPost
    \/ ParseTagPageItem

SpecParse == InitParse /\ [][NextParse]_vars

InitInclude ==
    IncludeStart /\ RetryIdle /\ FieldsIdle /\ ListIdle /\ CrawlIdle /\ CacheIdle /\
    ClientIdle /\ PixivIdle /\ SearchIdle /\ Ao3Idle /\ EnrichIdle /\ FilterIdle /\
    MergeIdle /\ ParseIdle /\ PagesIdle /\ ManagerIdle

NextInclude ==
    \/ BuildQueries
    \/ \E item \in Items : ReturnHit(item)

SpecInclude == InitInclude /\ [][NextInclude]_vars

\* fetch_article is sequential code and every request ends (timeout=15):
\* a call that can take a step takes one.
FetchStep ==
    \/ \E resp \in Upstream : AttemptOk(resp)
    \/ \E resp \in Upstream : AttemptRetried(resp)
    \/ \E resp \in Upstream : AttemptRejected(resp)
    \/ \E resp \in Upstream : AttemptRaised(resp)
    \/ FetchTail

SpecClientLive == InitClient /\ [][NextClient]_vars /\ WF_vars(FetchStep)

InitPages ==
    PagesStart /\ RetryIdle /\ FieldsIdle /\ ListIdle /\ CrawlIdle /\ CacheIdle /\
    ClientIdle /\ PixivIdle /\ SearchIdle /\ Ao3Idle /\ EnrichIdle /\ FilterIdle /\
    MergeIdle /\ ParseIdle /\ IncludeIdle /\ ManagerIdle

NextPages ==
    \/ \E p \in 1 .. MaxPage : SearchPage(p)
    \/ \E p \in 1 .. MaxPage : SearchPageFails(p)

SpecPages == InitPages /\ [][NextPages]_vars

InitManager ==
    ManagerStart /\ RetryIdle /\ FieldsIdle /\ ListIdle /\ CrawlIdle /\ CacheIdle /\
    ClientIdle /\ PixivIdle /\ SearchIdle /\ Ao3Idle /\ EnrichIdle /\ FilterIdle /\
    MergeIdle /\ ParseIdle /\ IncludeIdle /\ PagesIdle

NextManager ==
    \/ \E s \in Sources : start(s)
    \/ \E s \in Sources : clear(s)
    \/ \E s \in Sources, o \in {"success", "error"} : WorkerEnds(s, o)

SpecManager == InitManager /\ [][NextManager]_vars

====
